---- MODULE Spec2Model ----
(***************************************************************************)
(* Key-Kid: the plausibility scorer (utils/scoring.py), its LRU cache, the *)
(* key-space enumerators (tools/rot.py, tools/classic.py, tools/xor.py)    *)
(* and the encoding detector (tools/decode.py).                            *)
(*                                                                         *)
(* A character is its code point, a str a sequence of code points, a bytes *)
(* object a sequence of 0..255.  A score is an exact rational <<N, M>>     *)
(* standing for N / (31000 * M), in lowest terms, in place of the float.   *)
(***************************************************************************)
EXTENDS Integers, Sequences, FiniteSets, TLC

VARIABLES text, call, ret, cache, hits, misses, log, pool

vars == <<text, call, ret, cache, hits, misses, log, pool>>

\* what a call leaves: the value returned, or the exception raised
Returned(tool, v) == [tool |-> tool, status |-> "returned", value |-> v]
Raised(tool, e) == [tool |-> tool, status |-> "raised", value |-> e]

----------------------------------------------------------------------------
(* Bounds of the model *)

\* longest generated tail of an input text of the scorer
MaxLen == 2
\* longest generated tail of an input text of the tools
MaxPad == 1
\* capacity of the score cache in the model (lru_cache(maxsize=2048) in the source)
maxsize == 2
\* operations on the cache a behaviour of SpecCache makes
MaxCalls == 4
\* worker threads of the executor in the model (max_workers is at least 4 in
\* the source)
Workers == 2
\* how many keys the executor may hand out beyond the oldest unfinished one
MaxAhead == 2
\* the largest trial divisor of _trial_division in the model (limit=100000 in
\* the source): scaled down so that a product of two primes above it is a
\* number the model holds
TrialLimit == 7
\* the integers given to factor_integer are -MaxN..MaxN without 0
MaxN == 300

----------------------------------------------------------------------------
(* Characters: str.isalpha, str.isprintable, str.lower, str.upper *)

Min(a, b) == IF a <= b THEN a ELSE b
Max(a, b) == IF a >= b THEN a ELSE b

RECURSIVE Gcd(_, _)
Gcd(a, b) == IF b = 0 THEN a ELSE Gcd(b, a % b)

\* code points 128..2047 (the two-byte UTF-8 range) with str.isalpha() true
AlphaHigh ==
    {170} \cup {181} \cup {186} \cup 192..214 \cup 216..246 \cup 248..705
    \cup 710..721 \cup 736..740 \cup {748} \cup {750} \cup 880..884 \cup 886..887
    \cup 890..893 \cup {895} \cup {902} \cup 904..906 \cup {908} \cup 910..929
    \cup 931..1013 \cup 1015..1153 \cup 1162..1327 \cup 1329..1366 \cup {1369} \cup 1376..1416
    \cup 1488..1514 \cup 1519..1522 \cup 1568..1610 \cup 1646..1647 \cup 1649..1747 \cup {1749}
    \cup 1765..1766 \cup 1774..1775 \cup 1786..1788 \cup {1791} \cup {1808} \cup 1810..1839
    \cup 1869..1957 \cup {1969} \cup 1994..2026 \cup 2036..2037 \cup {2042}

\* code points 128..2047 with str.isprintable() false
NonPrintableHigh ==
    128..160 \cup {173} \cup 888..889 \cup 896..899 \cup {907} \cup {909}
    \cup {930} \cup {1328} \cup 1367..1368 \cup 1419..1420 \cup {1424} \cup 1480..1487
    \cup 1515..1518 \cup 1525..1541 \cup {1564} \cup {1757} \cup 1806..1807 \cup 1867..1868
    \cup 1970..1983 \cup 2043..2044

IsUpper(c) == c >= 65 /\ c <= 90
IsLower(c) == c >= 97 /\ c <= 122

\* ch.isalpha()
IsAlpha(c) == IF c < 128 THEN IsUpper(c) \/ IsLower(c) ELSE c \in AlphaHigh

\* ch.isprintable()
IsPrintable(c) == IF c < 128 THEN c >= 32 /\ c <= 126 ELSE c \notin NonPrintableHigh

\* ch.lower() and ch.upper() when they are one character.  Case mapping is
\* modelled on ASCII; a non-ASCII character is left as it is, which gives the
\* scorer the same sums, for no non-ASCII character below U+0800 has a
\* one-character lowercase form that is a key of LETTER_FREQ
LowerChar(c) == IF IsUpper(c) THEN c + 32 ELSE c
UpperChar(c) == IF IsLower(c) THEN c - 32 ELSE c

\* "".join(chars): the characters as one str
Join(chars) == SubSeq(chars, 1, Len(chars))

\* s.lower(): U+0130 lowers to the two characters "i" U+0307, the only
\* character below U+0800 whose lowercase form contains an ASCII letter
RECURSIVE Lower(_)
Lower(s) ==
    IF Len(s) = 0 THEN <<>>
    ELSE (IF Head(s) = 304 THEN <<105, 775>> ELSE <<LowerChar(Head(s))>>) \o Lower(Tail(s))

\* s.upper() of an ASCII str
Upper(s) == Join([i \in 1..Len(s) |-> UpperChar(s[i])])

----------------------------------------------------------------------------
(* utils/scoring.py *)

\* LETTER_FREQ, in units of 1e-5
LETTER_FREQ ==
    (97 :> 8167) @@ (98 :> 1492) @@ (99 :> 2782) @@ (100 :> 4253) @@ (101 :> 12702) @@
    (102 :> 2228) @@ (103 :> 2015) @@ (104 :> 6094) @@ (105 :> 6966) @@ (106 :> 153) @@
    (107 :> 772) @@ (108 :> 4025) @@ (109 :> 2406) @@ (110 :> 6749) @@ (111 :> 7507) @@
    (112 :> 1929) @@ (113 :> 95) @@ (114 :> 5987) @@ (115 :> 6327) @@ (116 :> 9056) @@
    (117 :> 2758) @@ (118 :> 978) @@ (119 :> 2360) @@ (120 :> 150) @@ (121 :> 1974) @@
    (122 :> 74) @@ (32 :> 13000)

\* BIGRAM_FREQ, in units of 1e-4
BIGRAM_FREQ ==
    (<<116, 104>> :> 152) @@ (<<104, 101>> :> 128) @@ (<<105, 110>> :> 94) @@ (<<101, 114>> :> 94) @@
    (<<97, 110>> :> 82) @@ (<<114, 101>> :> 68) @@ (<<110, 100>> :> 63) @@ (<<97, 116>> :> 59) @@
    (<<111, 110>> :> 57) @@ (<<110, 116>> :> 56) @@ (<<104, 97>> :> 56) @@ (<<101, 115>> :> 56) @@
    (<<115, 116>> :> 55) @@ (<<101, 110>> :> 55) @@ (<<101, 100>> :> 53) @@ (<<116, 111>> :> 52) @@
    (<<105, 116>> :> 50) @@ (<<111, 117>> :> 50) @@ (<<101, 97>> :> 47) @@ (<<104, 105>> :> 46) @@
    (<<105, 115>> :> 46) @@ (<<111, 114>> :> 43) @@ (<<116, 105>> :> 34) @@ (<<97, 115>> :> 33) @@
    (<<116, 101>> :> 27) @@ (<<101, 116>> :> 19) @@ (<<110, 103>> :> 18) @@ (<<111, 102>> :> 16) @@
    (<<97, 108>> :> 9) @@ (<<100, 101>> :> 9) @@ (<<115, 101>> :> 8) @@ (<<108, 101>> :> 8) @@
    (<<115, 97>> :> 6) @@ (<<115, 105>> :> 5) @@ (<<97, 114>> :> 4) @@ (<<118, 101>> :> 4) @@
    (<<114, 97>> :> 4) @@ (<<108, 100>> :> 2) @@ (<<117, 114>> :> 2)

LetterKeys == DOMAIN LETTER_FREQ
BigramKeys == DOMAIN BIGRAM_FREQ

\* the trigger words of FLAG_PATTERN: flag, ctf, key, secret
FlagWords ==
    { <<102, 108, 97, 103>>, <<99, 116, 102>>, <<107, 101, 121>>,
      <<115, 101, 99, 114, 101, 116>> }

\* the character a character matches under re.IGNORECASE: beside the ASCII
\* case pairs, U+017F matches "s" and U+212A matches "k"
FoldChar(c) == IF c = 383 THEN 115 ELSE IF c = 8490 THEN 107 ELSE LowerChar(c)

\* word w, then "{", stands at position i of s (re.IGNORECASE)
WordBraceAt(s, w, i) ==
    /\ i + Len(w) <= Len(s)
    /\ \A j \in 1..Len(w) : FoldChar(s[i + j - 1]) = w[j]
    /\ s[i + Len(w)] = 123

\* FLAG_PATTERN.search(s): (flag|ctf|key|secret)\{.*?\} where "." is any
\* character but the line feed
FlagSearch(s) ==
    \E i \in 1..Len(s) : \E w \in FlagWords :
        /\ WordBraceAt(s, w, i)
        /\ \E e \in (i + Len(w) + 1)..Len(s) :
              /\ s[e] = 125
              /\ \A x \in (i + Len(w) + 1)..(e - 1) : s[x] # 10

\* scores: <<N, M>> is N / (31000 * M)
Score0 == <<0, 1>>
Score1 == <<31000, 1>>
FlagScore == <<310000, 1>>

Rat(n, m) == LET g == Gcd(n, m) IN <<n \div g, m \div g>>

ScoreLe(a, b) == a[1] * b[2] <= b[1] * a[2]
ScoreLt(a, b) == a[1] * b[2] < b[1] * a[2]

\* SumLetters looking up ch in place of ch.lower()
RECURSIVE SumLettersCased(_, _)
SumLettersCased(s, i) ==
    IF i > Len(s) THEN 0
    ELSE (IF s[i] \in LetterKeys THEN LETTER_FREQ[s[i]] ELSE 0) + SumLettersCased(s, i + 1)

RECURSIVE SumLetters(_, _)
SumLetters(s, i) ==
    IF i > Len(s) THEN 0
    ELSE (IF LowerChar(s[i]) \in LetterKeys THEN LETTER_FREQ[LowerChar(s[i])] ELSE 0)
         + SumLetters(s, i + 1)

CountPrintable(s) == Cardinality({i \in 1..Len(s) : IsPrintable(s[i])})
CountAlpha(s) == Cardinality({i \in 1..Len(s) : IsAlpha(s[i])})

\* the windows s_lower[i : i + 2], i < len(s) - 1, that are keys of BIGRAM_FREQ
BigramWindows(s_lower, n) ==
    {i \in 1..(n - 1) : <<s_lower[i], s_lower[i + 1]>> \in BigramKeys}

BigramHits(s) == BigramWindows(Lower(s), Len(s))

RECURSIVE SumWindows(_, _, _)
SumWindows(s_lower, n, i) ==
    IF i >= n THEN 0
    ELSE (IF <<s_lower[i], s_lower[i + 1]>> \in BigramKeys
          THEN BIGRAM_FREQ[<<s_lower[i], s_lower[i + 1]>>] ELSE 0)
         + SumWindows(s_lower, n, i + 1)

SumBigrams(s, i) == SumWindows(Lower(s), Len(s), i)

\* normalized_letter = clamp((letter_score / n - 0.038) / 0.031) as L / (3100 * n)
NormalizedLetter(s) == Max(0, Min(3100 * Len(s), SumLetters(s, 1) - 3800 * Len(s)))

\* bigram_score = min(0.05, bigram_score / bigram_count) / 0.005 as B / (50 * c)
BigramNum(s) == Min(500 * Cardinality(BigramHits(s)), SumBigrams(s, 1))

\* CombineScore returning total, without min(1.0, total)
CombineScoreUncapped(nl, n, b, c) ==
    LET num == IF c = 0 THEN 7 * nl ELSE 7 * nl * c + 186 * b * n
        den == IF c = 0 THEN n ELSE n * c
    IN  Rat(num, den)

\* total = normalized_letter * 0.7 + bigram_score * 0.3, then min(1.0, total)
CombineScore(nl, n, b, c) ==
    LET num == IF c = 0 THEN 7 * nl ELSE 7 * nl * c + 186 * b * n
        den == IF c = 0 THEN n ELSE n * c
    IN  IF num >= 31000 * den THEN Score1 ELSE Rat(num, den)

\* english_score with the marker search made after the printable test
english_scoreLateMarker(s) ==
    IF Len(s) = 0 THEN Score0
    ELSE IF 10 * CountPrintable(s) < 7 * Len(s) THEN Score0
    ELSE IF FlagSearch(s) THEN FlagScore
    ELSE IF 2 * CountAlpha(s) < Len(s) THEN Score0
    ELSE CombineScore(NormalizedLetter(s), Len(s), BigramNum(s),
                      Cardinality(BigramHits(s)))

\* english_score without the printable test
english_scoreNoPrintable(s) ==
    IF Len(s) = 0 THEN Score0
    ELSE IF FlagSearch(s) THEN FlagScore
    ELSE IF 2 * CountAlpha(s) < Len(s) THEN Score0
    ELSE CombineScore(NormalizedLetter(s), Len(s), BigramNum(s),
                      Cardinality(BigramHits(s)))

\* the body of english_score
english_score(s) ==
    IF Len(s) = 0 THEN Score0
    ELSE IF FlagSearch(s) THEN FlagScore
    ELSE IF 10 * CountPrintable(s) < 7 * Len(s) THEN Score0
    ELSE IF 2 * CountAlpha(s) < Len(s) THEN Score0
    ELSE CombineScore(NormalizedLetter(s), Len(s), BigramNum(s),
                      Cardinality(BigramHits(s)))

----------------------------------------------------------------------------
(* functools.lru_cache(maxsize=2048) around english_score: the cache is the *)
(* sequence of <<input, score>> entries, least recently used first          *)

CacheKeys(c) == {c[i][1] : i \in 1..Len(c)}

CacheIndex(c, s) == CHOOSE i \in 1..Len(c) : c[i][1] = s

RemoveAt(q, i) == SubSeq(q, 1, i - 1) \o SubSeq(q, i + 1, Len(q))

\* LruHit leaving the entry where it is (first in, first out)
LruHitInPlace(c, s) == c

\* a hit moves the entry to the most recently used end
LruHit(c, s) == LET i == CacheIndex(c, s) IN Append(RemoveAt(c, i), c[i])

\* LruStore without the eviction: the cache grows with every new input
LruStoreUnbounded(c, s, v) == IF s \in CacheKeys(c) THEN c ELSE Append(c, <<s, v>>)

\* a miss stores the result, evicting the oldest entry of a full cache
LruStore(c, s, v) ==
    IF s \in CacheKeys(c) THEN c
    ELSE IF Len(c) >= maxsize THEN Append(Tail(c), <<s, v>>)
    ELSE Append(c, <<s, v>>)

\* one call english_score(s) made on the state st = [cache, hits, misses]:
\* the state after it, and the value it returns (the cached one on a hit)
LruCall(st, s) ==
    IF s \in CacheKeys(st.cache)
    THEN [cache |-> LruHit(st.cache, s), hits |-> st.hits + 1, misses |-> st.misses,
          value |-> st.cache[CacheIndex(st.cache, s)][2]]
    ELSE LET Miss(v) == [cache |-> LruStore(st.cache, s, v), hits |-> st.hits,
                         misses |-> st.misses + 1, value |-> v]
         IN  Miss(english_score(s))

\* cache_clear emptying the cache and leaving the counters
LruClearKeepsCounters == [cache |-> <<>>, hits |-> hits, misses |-> misses, value |-> Score0]

\* english_score.cache_clear()
LruClear == [cache |-> <<>>, hits |-> 0, misses |-> 0, value |-> Score0]

----------------------------------------------------------------------------
(* tools/models.py and the ranking every enumerator ends with *)

\* pydantic's Field(ge=0, le=1) on BreakResult.confidence and
\* DetectionCandidate.score: construction raises ValidationError outside [0, 1]
FieldOk(v) == ScoreLe(Score0, v) /\ ScoreLe(v, Score1)

BreakResult(alg, pt, key, conf) ==
    [algorithm |-> alg, plaintext |-> pt, key |-> key, confidence |-> conf]

\* MergeDesc letting an element of b go before one of a with an equal key
RECURSIVE MergeDescUnstable(_, _, _)
MergeDescUnstable(scores, a, b) ==
    IF Len(a) = 0 THEN b
    ELSE IF Len(b) = 0 THEN a
    ELSE LET m == (Len(a) + 1) \div 2
             c == Cardinality({j \in 1..Len(b) : ScoreLe(scores[a[m]], scores[b[j]])})
         IN  MergeDescUnstable(scores, SubSeq(a, 1, m - 1), SubSeq(b, 1, c))
             \o <<a[m]>>
             \o MergeDescUnstable(scores, SubSeq(a, m + 1, Len(a)), SubSeq(b, c + 1, Len(b)))

\* list.sort(key=..., reverse=True) is a stable merge sort: elements with equal
\* keys keep their order.  a and b are index sequences sorted by scores[_],
\* descending, every index of a smaller than every index of b: an element of b
\* goes before one of a only when its key is strictly greater
RECURSIVE MergeDesc(_, _, _)
MergeDesc(scores, a, b) ==
    IF Len(a) = 0 THEN b
    ELSE IF Len(b) = 0 THEN a
    ELSE LET m == (Len(a) + 1) \div 2
             c == Cardinality({j \in 1..Len(b) : ScoreLt(scores[a[m]], scores[b[j]])})
         IN  MergeDesc(scores, SubSeq(a, 1, m - 1), SubSeq(b, 1, c))
             \o <<a[m]>>
             \o MergeDesc(scores, SubSeq(a, m + 1, Len(a)), SubSeq(b, c + 1, Len(b)))

\* the indices lo..hi in sorted order
RECURSIVE SortRange(_, _, _)
SortRange(scores, lo, hi) ==
    IF lo > hi THEN <<>>
    ELSE IF lo = hi THEN <<lo>>
    ELSE LET mid == (lo + hi) \div 2
         IN  MergeDesc(scores, SortRange(scores, lo, mid), SortRange(scores, mid + 1, hi))

SortOrder(scores) == SortRange(scores, 1, Len(scores))

\* SortDesc leaving the list in enumeration order
SortDescOmitted(q, scores) == q

\* q sorted by the keys scores, scores[i] the key of q[i]
SortDesc(q, scores) ==
    LET order == SortOrder(scores) IN SubSeq([p \in 1..Len(q) |-> q[order[p]]], 1, Len(q))

\* q[:k]
Slice(q, k) ==
    IF k >= 0 THEN SubSeq(q, 1, Min(k, Len(q)))
    ELSE SubSeq(q, 1, Max(0, Len(q) + k))

\* str(k) for k >= 0
RECURSIVE Str(_)
Str(k) == IF k < 10 THEN <<48 + k>> ELSE Append(Str(k \div 10), (k % 10) + 48)


----------------------------------------------------------------------------
(* tools/classic.py: _shift_char, and the decoding loop of tools/rot.py *)

\* the shift applied forward, as the encoder applies it
_shift_charForward(c, k) ==
    IF IsUpper(c) THEN ((c - 65 + k) % 26) + 65
    ELSE IF IsLower(c) THEN ((c - 97 + k) % 26) + 97
    ELSE c

_shift_char(c, k) ==
    IF IsUpper(c) THEN ((c - 65 - k) % 26) + 65
    ELSE IF IsLower(c) THEN ((c - 97 - k) % 26) + 97
    ELSE c

ShiftText(s, k) == Join([i \in 1..Len(s) |-> _shift_char(s[i], k)])

\* the loop of an enumerator over cands[lo..hi], records [algorithm,
\* plaintext, key]: each plaintext is scored and wrapped in a BreakResult, whose
\* validation raises out of the loop at the first score outside [0, 1]
RECURSIVE EnumLoop(_, _, _, _)
EnumLoop(st, cands, lo, hi) ==
    IF lo > hi THEN [st |-> st, out |-> <<>>, raised |-> FALSE]
    ELSE IF lo = hi
         THEN LET One(c, r) ==
                      [st |-> r,
                       out |-> <<BreakResult(c.algorithm, c.plaintext, c.key, r.value)>>,
                       raised |-> ~FieldOk(r.value)]
              IN  One(cands[lo], LruCall(st, cands[lo].plaintext))
         ELSE LET Both(a, b) == [st |-> b.st, out |-> a.out \o b.out, raised |-> b.raised]
                  Rest(a) == IF a.raised THEN a
                             ELSE Both(a, EnumLoop(a.st, cands, ((lo + hi) \div 2) + 1, hi))
              IN  Rest(EnumLoop(st, cands, lo, (lo + hi) \div 2))

Confidences(q) == [i \in 1..Len(q) |-> q[i].confidence]

\* the loop, then out.sort(key=confidence, reverse=True) and out[:top_k]
Enumerate(st, tool, cands, top_k) ==
    LET Ranked(run) ==
            [st |-> run.st,
             ret |-> IF run.raised THEN Raised(tool, "ValidationError")
                     ELSE Returned(tool, Slice(SortDesc(run.out, Confidences(run.out)), top_k))]
    IN  Ranked(EnumLoop(st, cands, 1, Len(cands)))

\* rot_all
RotCandidates(s) ==
    [k \in 1..25 |-> [algorithm |-> <<"ROT", k>>, plaintext |-> ShiftText(s, k), key |-> Str(k)]]

rot_all(st, s, top_k) == Enumerate(st, "rot_all", RotCandidates(s), top_k)

\* caesar_break: best starts as BreakResult("", "0", 0.0); a strictly better
\* shift replaces it, which constructs a BreakResult and so validates the score
RECURSIVE CaesarLoop(_, _, _, _)
CaesarLoop(st, s, k, best) ==
    IF k > 25 THEN [st |-> st, ret |-> Returned("caesar_break", best)]
    ELSE LET Step(pt, r) ==
                 IF ScoreLt(best.confidence, r.value)
                 THEN IF FieldOk(r.value)
                      THEN CaesarLoop(r, s, k + 1, BreakResult("Caesar", pt, Str(k), r.value))
                      ELSE [st |-> r, ret |-> Raised("caesar_break", "ValidationError")]
                 ELSE CaesarLoop(r, s, k + 1, best)
         IN  Step(ShiftText(s, k), LruCall(st, ShiftText(s, k)))

\* the loop entered at the shift 1
caesar_break_from_one(st, s) ==
    CaesarLoop(st, s, 1, BreakResult("Caesar", <<>>, <<48>>, Score0))

caesar_break(st, s) ==
    CaesarLoop(st, s, 0, BreakResult("Caesar", <<>>, <<48>>, Score0))

\* vigenere_break: the column for key position i holds the alphabetic
\* characters whose index j in the whole text has j % klen == i
RECURSIVE VigColumn(_, _, _, _)
VigColumn(s, klen, i, j) ==
    IF j >= Len(s) THEN <<>>
    ELSE IF IsAlpha(s[j + 1]) /\ j % klen = i
         THEN <<s[j + 1]>> \o VigColumn(s, klen, i, j + 1)
         ELSE VigColumn(s, klen, i, j + 1)

\* the shift 0..25 whose decoding of the column scores strictly best
RECURSIVE VigBestShift(_, _, _, _, _)
VigBestShift(st, column, k, best_s, best_k) ==
    IF k > 25 THEN [st |-> st, best_k |-> best_k]
    ELSE LET Step(r) == IF ScoreLt(best_s, r.value)
                        THEN VigBestShift(r, column, k + 1, r.value, k)
                        ELSE VigBestShift(r, column, k + 1, best_s, best_k)
         IN  Step(LruCall(st, ShiftText(column, k)))

\* the key of length klen: chr(best_k + 65) per column
RECURSIVE VigKey(_, _, _, _, _)
VigKey(st, s, klen, i, key) ==
    IF i >= klen THEN [st |-> st, key |-> key]
    ELSE LET \* a shift is never negative: the test only orders the evaluation
             Step(b) == IF b.best_k < 0 THEN [st |-> b.st, key |-> key]
                        ELSE VigKey(b.st, s, klen, i + 1, Append(key, b.best_k + 65))
         IN  Step(VigBestShift(st, VigColumn(s, klen, i, 0), 0, Score0, 0))

\* decoding with key_str: the key cursor ci advances on alphabetic characters
RECURSIVE VigDecode(_, _, _, _)
VigDecode(s, key_str, j, ci) ==
    IF j > Len(s) THEN <<>>
    ELSE IF IsAlpha(s[j])
         THEN <<_shift_char(s[j], key_str[(ci % Len(key_str)) + 1] - 65)>>
              \o VigDecode(s, key_str, j + 1, ci + 1)
         ELSE <<s[j]>> \o VigDecode(s, key_str, j + 1, ci)

RECURSIVE VigCands(_, _, _, _, _)
VigCands(st, s, klen, max_key_len, cands) ==
    IF klen > max_key_len THEN [st |-> st, cands |-> cands]
    ELSE LET \* a miss count is never negative: the test only orders the evaluation
             Step(ky, pt, r) ==
                 IF r.misses < 0 THEN [st |-> r, cands |-> cands]
                 ELSE VigCands(r, s, klen + 1, max_key_len,
                               Append(cands, BreakResult("Vigenere", pt, ky.key, r.value)))
             Decoded(ky, pt) == Step(ky, pt, LruCall(ky.st, pt))
             Keyed(ky) == Decoded(ky, VigDecode(s, ky.key, 1, 0))
         IN  Keyed(VigKey(st, s, klen, 0, <<>>))

\* the BreakResults are constructed for cands[:top_k] only, after the sort
vigenere_break(st, s, max_key_len, top_k) ==
    LET Built(c, top) ==
            [st |-> c.st,
             ret |-> IF \A i \in 1..Len(top) : FieldOk(top[i].confidence)
                     THEN Returned("vigenere_break", top)
                     ELSE Raised("vigenere_break", "ValidationError")]
        Ranked(c) == Built(c, Slice(SortDesc(c.cands, Confidences(c.cands)), top_k))
    IN  Ranked(VigCands(st, s, 2, max_key_len, <<>>))

\* _affine_inv: the inverse of a modulo 26, None as -1
_affine_inv(a) ==
    IF \E i \in 0..25 : (a * i) % 26 = 1
    THEN CHOOSE i \in 0..25 : (a * i) % 26 = 1
    ELSE -1

AffineChar(c, inv, b) ==
    IF IsUpper(c) THEN ((inv * (c - 65 - b)) % 26) + 65
    ELSE IF IsLower(c) THEN ((inv * (c - 97 - b)) % 26) + 97
    ELSE c

AffineText(s, inv, b) == Join([i \in 1..Len(s) |-> AffineChar(s[i], inv, b)])

\* the a of range(1, 26) that have an inverse, ascending
AffineAs == SelectSeq([a \in 1..25 |-> a], LAMBDA a : _affine_inv(a) # -1)

\* f"a={a},b={b}"
AffineKey(a, b) == <<97, 61>> \o Str(a) \o <<44, 98, 61>> \o Str(b)

\* for a in range(1, 26): for b in range(26)
AffineCandidates(s) ==
    [i \in 1..(Len(AffineAs) * 26) |->
        LET a == AffineAs[((i - 1) \div 26) + 1]
            b == (i - 1) % 26
        IN  [algorithm |-> "Affine", plaintext |-> AffineText(s, _affine_inv(a), b),
             key |-> AffineKey(a, b)]]

affine_break(st, s, top_k) == Enumerate(st, "affine_break", AffineCandidates(s), top_k)

\* _rail_pattern(n, rails): the row of each position, r after the i-th step
RECURSIVE _rail_pattern(_, _, _, _, _)
_rail_pattern(n, rails, r, d, idx) ==
    IF Len(idx) >= n THEN idx
    ELSE LET r1 == r + d
             d1 == IF r1 = rails - 1 THEN -1 ELSE d
             d2 == IF r1 = 0 THEN 1 ELSE d1
         IN  _rail_pattern(n, rails, r1, d2, Append(idx, r))

\* rail_fence_decrypt: the positions of row 0, then of row 1, ... receive the
\* ciphertext characters in turn
rail_fence_decrypt(ciphertext, rails) ==
    LET n == Len(ciphertext)
        pat == _rail_pattern(n, rails, 0, 1, <<>>)
        \* how many positions come before position i in read order
        before(i) == Cardinality({j \in 1..n : pat[j] < pat[i] \/ (pat[j] = pat[i] /\ j < i)})
    IN  Join([i \in 1..n |-> ciphertext[before(i) + 1]])

RailCandidates(s, max_rails) ==
    [x \in 1..Max(0, max_rails - 1) |->
        [algorithm |-> "RailFence", plaintext |-> rail_fence_decrypt(s, x + 1),
         key |-> Str(x + 1)]]

rail_fence_break(st, s, max_rails, top_k) ==
    Enumerate(st, "rail_fence_break", RailCandidates(s, max_rails), top_k)

\* _column_lengths(n, k), columns numbered from 0
_column_lengths(n, k) == [i \in 1..k |-> (n \div k) + (IF i - 1 < n % k THEN 1 ELSE 0)]

\* key_order.index(x), positions numbered from 0
IndexOf(q, x) == (CHOOSE i \in 1..Len(q) : q[i] = x /\ \A j \in 1..(i - 1) : q[j] # x) - 1

RECURSIVE SumTo(_, _)
SumTo(q, i) == IF i = 0 THEN 0 ELSE q[i] + SumTo(q, i - 1)

RECURSIVE MaxOf(_, _)
MaxOf(q, i) == IF i = 0 THEN 0 ELSE Max(q[i], MaxOf(q, i - 1))

\* columnar_transposition_decrypt: the col_idx-th slice of the ciphertext is
\* column key_order.index(col_idx), as long as that column; then row by row
columnar_transposition_decrypt(ciphertext, key_order) ==
    LET n == Len(ciphertext)
        k == Len(key_order)
        lens == _column_lengths(n, k)
        real == [c \in 1..k |-> IndexOf(key_order, c - 1) + 1]
        taken == [c \in 1..k |-> lens[real[c]]]
        pos == [c \in 1..k |-> SumTo(taken, c - 1)]
        cols == [j \in 1..k |->
                    LET c == CHOOSE c \in 1..k : real[c] = j
                    IN  SubSeq(ciphertext, pos[c] + 1, pos[c] + lens[j])]
        cells == [x \in 1..(MaxOf(lens, k) * k) |-> <<(x - 1) \div k, ((x - 1) % k) + 1>>]
        kept == SelectSeq(cells, LAMBDA c : c[1] < Len(cols[c[2]]))
    IN  Join([x \in 1..Len(kept) |-> cols[kept[x][2]][kept[x][1] + 1]])

\* itertools.permutations(q): lexicographic in the positions of q
RECURSIVE permutations(_)
RECURSIVE PermsFrom(_, _)
PermsFrom(q, i) ==
    IF i > Len(q) THEN <<>>
    ELSE LET rest == permutations(RemoveAt(q, i))
         IN  [x \in 1..Len(rest) |-> <<q[i]>> \o rest[x]] \o PermsFrom(q, i + 1)

permutations(q) == IF Len(q) = 0 THEN << <<>> >> ELSE PermsFrom(q, 1)

\* "-".join(str(x) for x in perm)
RECURSIVE JoinDash(_)
JoinDash(perm) ==
    IF Len(perm) = 0 THEN <<>>
    ELSE IF Len(perm) = 1 THEN Str(perm[1])
    ELSE Str(perm[1]) \o <<45>> \o JoinDash(Tail(perm))

RECURSIVE TranspositionCandidates(_, _, _)
TranspositionCandidates(s, k, max_key_len) ==
    IF k > max_key_len THEN <<>>
    ELSE LET perms == permutations([i \in 1..k |-> i - 1])
         IN  [x \in 1..Len(perms) |->
                [algorithm |-> "Transposition",
                 plaintext |-> columnar_transposition_decrypt(s, perms[x]),
                 key |-> JoinDash(perms[x])]]
             \o TranspositionCandidates(s, k + 1, max_key_len)

transposition_break(st, s, max_key_len, top_k) ==
    Enumerate(st, "transposition_break", TranspositionCandidates(s, 2, max_key_len), top_k)

----------------------------------------------------------------------------
(* bytes and str: bytes.decode(errors=...), str.encode(), bytes.fromhex *)

\* x ^ y on n-bit values
RECURSIVE XorBits(_, _, _)
XorBits(x, y, n) ==
    IF n = 0 THEN 0
    ELSE ((x + y) % 2) + 2 * XorBits(x \div 2, y \div 2, n - 1)

Xor(x, y) == XorBits(x, y, 8)

IsCont(b) == b >= 128 /\ b <= 191

\* the UTF-8 decoder at position i of the bytes b: [n |-> bytes consumed,
\* cp |-> the code point, or -1 for an error covering those n bytes]
Utf8At(b, i) ==
    LET c == b[i]
        left == Len(b) - i + 1
        c2 == b[i + 1]
        c3 == b[i + 2]
        c4 == b[i + 3]
    IN  IF c < 128 THEN [n |-> 1, cp |-> c]
        ELSE IF c < 194 \/ c > 244 THEN [n |-> 1, cp |-> -1]
        ELSE IF c < 224 THEN
            IF left < 2 THEN [n |-> left, cp |-> -1]
            ELSE IF ~IsCont(c2) THEN [n |-> 1, cp |-> -1]
            ELSE [n |-> 2, cp |-> (c - 192) * 64 + (c2 - 128)]
        ELSE IF c < 240 THEN
            IF left < 2 THEN [n |-> left, cp |-> -1]
            ELSE IF ~IsCont(c2) \/ (c = 224 /\ c2 < 160) \/ (c = 237 /\ c2 >= 160)
                 THEN [n |-> 1, cp |-> -1]
            ELSE IF left < 3 THEN [n |-> left, cp |-> -1]
            ELSE IF ~IsCont(c3) THEN [n |-> 2, cp |-> -1]
            ELSE [n |-> 3, cp |-> (c - 224) * 4096 + (c2 - 128) * 64 + (c3 - 128)]
        ELSE
            IF left < 2 THEN [n |-> left, cp |-> -1]
            ELSE IF ~IsCont(c2) \/ (c = 240 /\ c2 < 144) \/ (c = 244 /\ c2 >= 144)
                 THEN [n |-> 1, cp |-> -1]
            ELSE IF left < 3 THEN [n |-> left, cp |-> -1]
            ELSE IF ~IsCont(c3) THEN [n |-> 2, cp |-> -1]
            ELSE IF left < 4 THEN [n |-> left, cp |-> -1]
            ELSE IF ~IsCont(c4) THEN [n |-> 3, cp |-> -1]
            ELSE [n |-> 4, cp |-> (c - 240) * 262144 + (c2 - 128) * 4096
                                   + (c3 - 128) * 64 + (c4 - 128)]

\* b.decode("utf-8", errors): an undecodable range is dropped ("ignore") or
\* becomes U+FFFD ("replace")
RECURSIVE Utf8Decode(_, _, _)
Utf8Decode(b, i, errors) ==
    IF i > Len(b) THEN <<>>
    ELSE LET Step(d) == (IF d.cp >= 0 THEN <<d.cp>>
                         ELSE IF errors = "replace" THEN <<65533>> ELSE <<>>)
                        \o Utf8Decode(b, i + d.n, errors)
         IN  Step(Utf8At(b, i))

\* pt.decode(errors="ignore")
DecodeIgnore(b) == Utf8Decode(b, 1, "ignore")

\* str.encode(): UTF-8, for code points below 0x800
RECURSIVE Utf8Encode(_, _)
Utf8Encode(s, i) ==
    IF i > Len(s) THEN <<>>
    ELSE (IF s[i] < 128 THEN <<s[i]>>
          ELSE <<192 + (s[i] \div 64), 128 + (s[i] % 64)>>)
         \o Utf8Encode(s, i + 1)

\* the value of a hexadecimal digit, -1 for any other character
HexVal(c) ==
    IF c >= 48 /\ c <= 57 THEN c - 48
    ELSE IF c >= 97 /\ c <= 102 THEN c - 87
    ELSE IF c >= 65 /\ c <= 70 THEN c - 55
    ELSE -1

\* the ASCII whitespace bytes.fromhex skips between two bytes
IsHexSpace(c) == c \in {32, 9, 10, 11, 12, 13}

\* bytes.fromhex(s): pairs of hex digits, whitespace between pairs skipped;
\* [ok |-> FALSE] stands for the ValueError
RECURSIVE FromHex(_, _, _)
FromHex(s, i, acc) ==
    IF i > Len(s) THEN [ok |-> TRUE, bytes |-> acc]
    ELSE IF IsHexSpace(s[i]) THEN FromHex(s, i + 1, acc)
    ELSE IF i + 1 > Len(s) \/ HexVal(s[i]) < 0 \/ HexVal(s[i + 1]) < 0
         THEN [ok |-> FALSE, bytes |-> <<>>]
    ELSE FromHex(s, i + 2, Append(acc, 16 * HexVal(s[i]) + HexVal(s[i + 1])))

----------------------------------------------------------------------------
(* binascii.a2b_base64, as base64.b64decode calls it *)

\* the value of a character of the base64 alphabet, -1 for any other
B64Val(c) ==
    IF c >= 65 /\ c <= 90 THEN c - 65
    ELSE IF c >= 97 /\ c <= 122 THEN c - 71
    ELSE IF c >= 48 /\ c <= 57 THEN c + 4
    ELSE IF c = 43 THEN 62
    ELSE IF c = 47 THEN 63
    ELSE -1

\* the scan of a2b_base64 from position i: quad the position in the current
\* group of four, left the bits carried over, pads the '=' seen in a row,
\* started whether a '=' was seen at all, out the bytes produced so far
RECURSIVE A2bLoop(_, _, _, _, _, _, _, _)
A2bLoop(s, strict, i, quad, left, pads, started, out) ==
    IF i > Len(s)
    THEN [ok |-> quad = 0, bytes |-> out]
    ELSE IF s[i] = 61
    THEN IF quad >= 2 /\ quad + pads + 1 >= 4
         THEN [ok |-> ~(strict /\ i < Len(s)), bytes |-> out]
         ELSE A2bLoop(s, strict, i + 1, quad, left,
                      IF quad >= 2 THEN pads + 1 ELSE pads, TRUE, out)
    ELSE IF B64Val(s[i]) < 0
    THEN IF strict THEN [ok |-> FALSE, bytes |-> out]
         ELSE A2bLoop(s, strict, i + 1, quad, left, pads, started, out)
    ELSE IF strict /\ started
    THEN [ok |-> FALSE, bytes |-> out]
    ELSE LET v == B64Val(s[i])
         IN  IF quad = 0 THEN A2bLoop(s, strict, i + 1, 1, v, 0, started, out)
             ELSE IF quad = 1
             THEN A2bLoop(s, strict, i + 1, 2, v % 16, 0, started,
                          Append(out, left * 4 + (v \div 16)))
             ELSE IF quad = 2
             THEN A2bLoop(s, strict, i + 1, 3, v % 4, 0, started,
                          Append(out, left * 16 + (v \div 4)))
             ELSE A2bLoop(s, strict, i + 1, 0, 0, 0, started,
                          Append(out, left * 64 + v))

IsAscii(s) == \A i \in 1..Len(s) : s[i] < 128

\* base64.b64decode(s, validate=strict) of a str: [ok |-> FALSE] stands for
\* the ValueError or binascii.Error
b64decode(s, strict) ==
    IF ~IsAscii(s) THEN [ok |-> FALSE, bytes |-> <<>>]
    ELSE IF strict /\ Len(s) > 0 /\ s[1] = 61 THEN [ok |-> FALSE, bytes |-> <<>>]
    ELSE LET r == A2bLoop(s, strict, 1, 0, 0, 0, FALSE, <<>>)
         IN  IF r.ok THEN r ELSE [ok |-> FALSE, bytes |-> <<>>]

----------------------------------------------------------------------------
(* tools/xor.py *)

_parse_data(data, encoding) ==
    IF encoding = "hex" THEN FromHex(data, 1, <<>>)
    ELSE IF encoding = "b64" THEN b64decode(data, FALSE)
    ELSE [ok |-> TRUE, bytes |-> Utf8Encode(data, 1)]

\* bytes(x ^ k for x in b)
XorBytes(b, k) == Join([i \in 1..Len(b) |-> Xor(b[i], k)])

\* try_key(k) before the score: the candidate of the key k
try_key(b, k) ==
    [algorithm |-> "XOR-single", plaintext |-> DecodeIgnore(XorBytes(b, k)), key |-> Str(k)]

XorCandidates(b) == [i \in 1..256 |-> try_key(b, i - 1)]

\* xor_single_break with the keys tried one after the other, 0 first
xor_single_break(st, data, encoding, top_k) ==
    LET Parsed(p) ==
            IF ~p.ok THEN [st |-> st, ret |-> Raised("xor_single_break", "ValueError")]
            ELSE Enumerate(st, "xor_single_break", XorCandidates(p.bytes), top_k)
    IN  Parsed(_parse_data(data, encoding))

\* 1 for a byte with any bit set: the bytes that differ, not the bits
PopCountByte(x) == IF x = 0 THEN 0 ELSE 1

RECURSIVE PopCount(_)
PopCount(x) == IF x = 0 THEN 0 ELSE (x % 2) + PopCount(x \div 2)

RECURSIVE HammingSum(_, _, _)
HammingSum(a, b, i) ==
    IF i > Len(a) THEN 0 ELSE PopCount(Xor(a[i], b[i])) + HammingSum(a, b, i + 1)

\* utils/scoring.py hamming_distance: zip(a, b, strict=True) raises ValueError
\* on operands of different lengths, modelled as -1
hamming_distance(a, b) == IF Len(a) # Len(b) THEN -1 ELSE HammingSum(a, b, 1)

\* b[lo:hi] for 0 <= lo <= hi
ByteSlice(b, lo, hi) == SubSeq(b, Min(lo, Len(b)) + 1, Min(hi, Len(b)))

\* the value 1e9 _avg_norm_hamming returns when four full blocks do not exist
NoBlocks == <<1000000000, 1>>

\* _avg_norm_hamming(b, key_size) for key_size >= 1, blocks = 4: the rational
\* <<sum of the three distances, 3 * key_size>>
_avg_norm_hamming(b, key_size) ==
    LET chunks == [i \in 1..4 |-> ByteSlice(b, (i - 1) * key_size, i * key_size)]
    IN  IF \E i \in 1..4 : Len(chunks[i]) # key_size THEN NoBlocks
        ELSE <<hamming_distance(chunks[1], chunks[2]) + hamming_distance(chunks[2], chunks[3])
                 + hamming_distance(chunks[3], chunks[4]), 3 * key_size>>

\* candidates.sort(key=distance) is ascending: the descending sort on the
\* negated keys.  An average is at most 8 bits per byte, so 1e9 is ordered
\* as 9 is, which keeps the products of the comparison small
AscKey(d) == IF d = NoBlocks THEN <<-9, 1>> ELSE <<-d[1], d[2]>>

KeySizes(b, min_key, max_key) ==
    LET n == Max(0, max_key - min_key + 1)
        sizes == [i \in 1..n |-> min_key + i - 1]
        keys == [i \in 1..n |-> AscKey(_avg_norm_hamming(b, sizes[i]))]
    IN  Slice(SortDesc(sizes, keys), 5)

\* column = bytes(b[j] for j in range(i, len(b), ks)), i counted from 0
Column(b, i, ks) ==
    LET n == IF Len(b) > i THEN ((Len(b) - i - 1) \div ks) + 1 ELSE 0
    IN  Join([j \in 1..n |-> b[i + (j - 1) * ks + 1]])

\* for k in range(lo, hi + 1): the first key with the greatest score wins
RECURSIVE BestKey(_, _, _, _)
BestKey(st, column, lo, hi) ==
    IF lo = hi
    THEN LET One(r) == [st |-> r, k |-> lo, score |-> r.value]
         IN  One(LruCall(st, DecodeIgnore(XorBytes(column, lo))))
    ELSE LET Both(a, c) == IF ScoreLt(a.score, c.score) THEN c
                           ELSE [st |-> c.st, k |-> a.k, score |-> a.score]
             \* a key is never negative: the test only orders the evaluation
             Rest(a) == IF a.k < 0 THEN a
                        ELSE Both(a, BestKey(a.st, column, ((lo + hi) \div 2) + 1, hi))
         IN  Rest(BestKey(st, column, lo, (lo + hi) \div 2))

\* the key of size ks, one byte for each column
RECURSIVE ColumnKeys(_, _, _, _, _)
ColumnKeys(st, b, ks, i, key) ==
    IF i >= ks THEN [st |-> st, key |-> key]
    ELSE LET \* a key is never negative: the test only orders the evaluation
             Step(r) == IF r.k < 0 THEN [st |-> r.st, key |-> key]
                        ELSE ColumnKeys(r.st, b, ks, i + 1, Append(key, r.k))
         IN  Step(BestKey(st, Column(b, i, ks), 0, 255))

\* bytes(b[i] ^ key[i % len(key)] for i in range(len(b)))
XorKey(b, key) == Join([i \in 1..Len(b) |-> Xor(b[i], key[((i - 1) % Len(key)) + 1])])

\* the loop over candidates[:5]; best = [pt, key, score], score -1.0 at first
RECURSIVE KeySizeLoop(_, _, _, _, _)
KeySizeLoop(st, b, sizes, i, best) ==
    IF i > Len(sizes) THEN [st |-> st, best |-> best]
    ELSE LET Step(ck, txt, r) ==
                 IF ScoreLt(best.score, r.value)
                 THEN KeySizeLoop(r, b, sizes, i + 1,
                                  [pt |-> txt, key |-> ck.key, score |-> r.value])
                 ELSE KeySizeLoop(r, b, sizes, i + 1, best)
             Decoded(ck, txt) == Step(ck, txt, LruCall(ck.st, txt))
             Keyed(ck) == Decoded(ck, DecodeIgnore(XorKey(b, ck.key)))
         IN  Keyed(ColumnKeys(st, b, sizes[i], 0, <<>>))

\* xor_repeating_break for min_key >= 1
xor_repeating_break(st, data, encoding, min_key, max_key) ==
    LET Built(st1, best) ==
            [st |-> st1,
             ret |-> IF FieldOk(best.score)
                     THEN Returned("xor_repeating_break",
                                   BreakResult("XOR-repeating", best.pt,
                                               DecodeIgnore(best.key), best.score))
                     ELSE Raised("xor_repeating_break", "ValidationError")]
        Ran(run) == Built(run.st, run.best)
        Parsed(p) ==
            IF ~p.ok THEN [st |-> st, ret |-> Raised("xor_repeating_break", "ValueError")]
            ELSE Ran(KeySizeLoop(st, p.bytes, KeySizes(p.bytes, min_key, max_key), 1,
                                 [pt |-> <<>>, key |-> <<>>, score |-> <<-31000, 1>>]))
    IN  Parsed(_parse_data(data, encoding))

----------------------------------------------------------------------------
(* the decoders of tools/decode.py; None is [ok |-> FALSE] *)

None == [ok |-> FALSE, text |-> <<>>]
Some(t) == [ok |-> TRUE, text |-> t]

\* fn(...).decode(errors="ignore") inside try/except
DecodedBytes(r) == IF r.ok THEN Some(DecodeIgnore(r.bytes)) ELSE None

_try_decode_base64(s) == DecodedBytes(b64decode(s, TRUE))

\* the value of a character of the base32 alphabet after casefold, else -1
B32Val(c) ==
    IF UpperChar(c) >= 65 /\ UpperChar(c) <= 90 /\ c < 128 THEN UpperChar(c) - 65
    ELSE IF c >= 50 /\ c <= 55 THEN c - 24
    ELSE -1

\* the five bytes of a quantum of eight 5-bit values
B32Quantum(v) ==
    << v[1] * 8 + (v[2] \div 4),
       (v[2] % 4) * 64 + v[3] * 2 + (v[4] \div 16),
       (v[4] % 16) * 16 + (v[5] \div 2),
       (v[5] % 2) * 128 + v[6] * 4 + (v[7] \div 8),
       (v[7] % 8) * 32 + v[8] >>

\* the number of '=' at the end of s
RECURSIVE PadChars(_, _)
PadChars(s, n) == IF n > 0 /\ s[n] = 61 THEN 1 + PadChars(s, n - 1) ELSE 0

\* base64.b32decode(s, casefold=True)
b32decode(s) ==
    LET l == Len(s)
        padchars == PadChars(s, l)
        body == SubSeq(s, 1, l - padchars)
        val(i) == IF i <= Len(body) THEN B32Val(body[i]) ELSE 0
        quanta == (Len(body) + 7) \div 8
        bytes(q) == B32Quantum([j \in 1..8 |-> val(8 * (q - 1) + j)])
        leftover == (43 - 5 * padchars) \div 8
        RECURSIVE Cat(_)
        Cat(q) == IF q > quanta THEN <<>>
                  ELSE (IF q = quanta /\ padchars > 0 THEN SubSeq(bytes(q), 1, leftover)
                        ELSE bytes(q)) \o Cat(q + 1)
    IN  IF ~IsAscii(s) \/ l % 8 # 0 THEN [ok |-> FALSE, bytes |-> <<>>]
        ELSE IF \E i \in 1..Len(body) : B32Val(body[i]) < 0 THEN [ok |-> FALSE, bytes |-> <<>>]
        ELSE IF padchars \notin {0, 1, 3, 4, 6} THEN [ok |-> FALSE, bytes |-> <<>>]
        ELSE [ok |-> TRUE, bytes |-> Cat(1)]

_try_decode_base32(s) == DecodedBytes(b32decode(s))

\* base64.b16decode(s, casefold=True): hex digits only, an even number of them
b16decode(s) ==
    IF \E i \in 1..Len(s) : HexVal(s[i]) < 0 THEN [ok |-> FALSE, bytes |-> <<>>]
    ELSE IF Len(s) % 2 # 0 THEN [ok |-> FALSE, bytes |-> <<>>]
    ELSE [ok |-> TRUE,
          bytes |-> [i \in 1..(Len(s) \div 2) |-> 16 * HexVal(s[2 * i - 1]) + HexVal(s[2 * i])]]

_try_decode_base16(s) == DecodedBytes(b16decode(s))

\* the code points of base64._b85alphabet after the digits and letters
B85Specials ==
    <<33, 35, 36, 37, 38, 40, 41, 42, 43, 45, 59, 60, 61, 62, 63, 64, 94, 95, 96,
      123, 124, 125, 126>>

B85Val(c) ==
    IF c >= 48 /\ c <= 57 THEN c - 48
    ELSE IF c >= 65 /\ c <= 90 THEN c - 55
    ELSE IF c >= 97 /\ c <= 122 THEN c - 61
    ELSE IF \E i \in 1..Len(B85Specials) : B85Specials[i] = c
         THEN 61 + (CHOOSE i \in 1..Len(B85Specials) : B85Specials[i] = c)
    ELSE -1

\* one chunk of five base85 values, packed as an unsigned 32-bit big-endian
\* integer: acc = hi * 85 + v[5], too large for '!I' above 2^32 - 1, which is
\* 85 * 50529027; the product is carried out byte by byte
B85Chunk(v) ==
    LET hi == ((v[1] * 85 + v[2]) * 85 + v[3]) * 85 + v[4]
        t0 == (hi % 256) * 85 + v[5]
        t1 == ((hi \div 256) % 256) * 85 + (t0 \div 256)
        t2 == ((hi \div 65536) % 256) * 85 + (t1 \div 256)
        t3 == (hi \div 16777216) * 85 + (t2 \div 256)
    IN  IF hi > 50529027 \/ (hi = 50529027 /\ v[5] > 0)
        THEN [ok |-> FALSE, bytes |-> <<>>]
        ELSE [ok |-> TRUE, bytes |-> <<t3, t2 % 256, t1 % 256, t0 % 256>>]

\* base64.b85decode(s): padded with '~' to a multiple of five characters, the
\* bytes the padding made are cut off the end
b85decode(s) ==
    LET padding == (5 - (Len(s) % 5)) % 5
        b == s \o [i \in 1..padding |-> 126]
        chunks == Len(b) \div 5
        chunk(q) == B85Chunk([j \in 1..5 |-> B85Val(b[5 * (q - 1) + j])])
        RECURSIVE Cat(_)
        Cat(q) == IF q > chunks THEN <<>> ELSE chunk(q).bytes \o Cat(q + 1)
    IN  IF ~IsAscii(s) \/ \E i \in 1..Len(s) : B85Val(s[i]) < 0
        THEN [ok |-> FALSE, bytes |-> <<>>]
        ELSE IF \E q \in 1..chunks : ~chunk(q).ok THEN [ok |-> FALSE, bytes |-> <<>>]
        ELSE [ok |-> TRUE, bytes |-> SubSeq(Cat(1), 1, 4 * chunks - padding)]

_try_decode_b85(s) == DecodedBytes(b85decode(s))

_try_decode_hex(s) == DecodedBytes(FromHex(s, 1, <<>>))

\* urllib.parse.unquote_to_bytes on the ASCII run s[i..hi]: "%" followed by
\* two hex digits is the byte they spell, any other character is itself
RECURSIVE UnquoteRun(_, _, _)
UnquoteRun(s, i, hi) ==
    IF i > hi THEN <<>>
    ELSE IF s[i] = 37 /\ i + 2 <= hi /\ HexVal(s[i + 1]) >= 0 /\ HexVal(s[i + 2]) >= 0
         THEN <<16 * HexVal(s[i + 1]) + HexVal(s[i + 2])>> \o UnquoteRun(s, i + 3, hi)
    ELSE <<s[i]>> \o UnquoteRun(s, i + 1, hi)

\* the end of the run of ASCII characters that starts at i
RECURSIVE RunEnd(_, _)
RunEnd(s, i) == IF i < Len(s) /\ s[i + 1] < 128 THEN RunEnd(s, i + 1) ELSE i

\* urllib.parse.unquote(s): each ASCII run is unquoted to bytes and decoded as
\* UTF-8 with errors="replace", the other characters are kept
RECURSIVE UnquoteFrom(_, _)
UnquoteFrom(s, i) ==
    IF i > Len(s) THEN <<>>
    ELSE IF s[i] >= 128 THEN <<s[i]>> \o UnquoteFrom(s, i + 1)
    ELSE LET hi == RunEnd(s, i)
         IN  Utf8Decode(UnquoteRun(s, i, hi), 1, "replace") \o UnquoteFrom(s, hi + 1)

unquote(s) == IF \A i \in 1..Len(s) : s[i] # 37 THEN s ELSE UnquoteFrom(s, 1)

_try_decode_url(s) == LET t == unquote(s) IN IF t # s THEN Some(t) ELSE None

IsOctal(c) == c >= 48 /\ c <= 55

\* the number of hex digits among b[i..i+n-1]
HexRun(b, i, n) ==
    Cardinality({j \in 0..(n - 1) :
                    \A h \in 0..j : i + h <= Len(b) /\ HexVal(b[i + h]) >= 0})

RECURSIVE HexNum(_, _, _)
HexNum(b, i, n) ==
    IF n = 0 THEN 0 ELSE HexNum(b, i, n - 1) * 16 + HexVal(b[i + n - 1])

\* the single-character escapes of the unicode_escape codec
SimpleEscapes ==
    (92 :> 92) @@ (39 :> 39) @@ (34 :> 34) @@ (98 :> 8) @@ (102 :> 12) @@ (116 :> 9)
    @@ (110 :> 10) @@ (114 :> 13) @@ (118 :> 11) @@ (97 :> 7)

\* bytes.decode("unicode_escape") from position i: a byte outside an escape is
\* the code point of the same value; \x, \u and \U take 2, 4 and 8 hex digits;
\* an unknown escape is kept with its backslash; \N{name} is not modelled and
\* decodes as the error an unknown name gives
RECURSIVE UnicodeEscape(_, _, _)
UnicodeEscape(b, i, acc) ==
    IF i > Len(b) THEN Some(acc)
    ELSE IF b[i] # 92 THEN UnicodeEscape(b, i + 1, Append(acc, b[i]))
    ELSE IF i = Len(b) THEN None
    ELSE LET c == b[i + 1]
             digits == IF c = 120 THEN 2 ELSE IF c = 117 THEN 4 ELSE 8
             oct == IF i + 2 <= Len(b) /\ IsOctal(b[i + 2])
                    THEN IF i + 3 <= Len(b) /\ IsOctal(b[i + 3]) THEN 3 ELSE 2
                    ELSE 1
             octval == IF oct = 1 THEN c - 48
                       ELSE IF oct = 2 THEN (c - 48) * 8 + (b[i + 2] - 48)
                       ELSE (c - 48) * 64 + (b[i + 2] - 48) * 8 + (b[i + 3] - 48)
         IN  IF c = 10 THEN UnicodeEscape(b, i + 2, acc)
             ELSE IF c \in DOMAIN SimpleEscapes
                  THEN UnicodeEscape(b, i + 2, Append(acc, SimpleEscapes[c]))
             ELSE IF IsOctal(c) THEN UnicodeEscape(b, i + 1 + oct, Append(acc, octval))
             ELSE IF c \in {120, 117, 85}
                  THEN IF HexRun(b, i + 2, digits) < digits THEN None
                       ELSE IF c = 85 /\ HexNum(b, i + 2, 4) > 16 THEN None
                       ELSE UnicodeEscape(b, i + 2 + digits,
                                          Append(acc, HexNum(b, i + 2, digits)))
             ELSE IF c = 78 THEN None
             ELSE UnicodeEscape(b, i + 2, acc \o <<92, c>>)

_try_decode_unicode_escape(s) == UnicodeEscape(Utf8Encode(s, 1), 1, <<>>)

RECURSIVE BinNum(_, _, _)
BinNum(s, i, n) == IF n = 0 THEN 0 ELSE BinNum(s, i, n - 1) * 2 + (s[i + n - 1] - 48)

\* _try_decode_binary: spaces and newlines removed, then groups of eight bits
_try_decode_binary(s) ==
    LET s_clean == SelectSeq(s, LAMBDA c : c # 32 /\ c # 10)
    IN  IF Len(s_clean) = 0 \/ Len(s_clean) % 8 # 0 THEN None
        ELSE IF \E i \in 1..Len(s_clean) : s_clean[i] \notin {48, 49} THEN None
        ELSE Some(DecodeIgnore([i \in 1..(Len(s_clean) \div 8) |->
                                   BinNum(s_clean, 8 * (i - 1) + 1, 8)]))

DECODERS ==
    <<"base64", "base32", "base16", "base85", "hex", "url", "unicode_escape", "binary">>

\* fn(text) for the decoder DECODERS[i]
Decode(i, s) ==
    CASE i = 1 -> _try_decode_base64(s)
      [] i = 2 -> _try_decode_base32(s)
      [] i = 3 -> _try_decode_base16(s)
      [] i = 4 -> _try_decode_b85(s)
      [] i = 5 -> _try_decode_hex(s)
      [] i = 6 -> _try_decode_url(s)
      [] i = 7 -> _try_decode_unicode_escape(s)
      [] i = 8 -> _try_decode_binary(s)

DetectionCandidate(name, score, decoded) ==
    [name |-> name, score |-> score, decoded |-> decoded]

Scores(q) == [i \in 1..Len(q) |-> q[i].score]

\* the loop of detect_encoding from the decoder i on; DetectionCandidate raises
\* ValidationError out of it on a score outside [0, 1]
RECURSIVE DetectLoop(_, _, _, _)
DetectLoop(st, s, i, cands) ==
    IF i > Len(DECODERS) THEN [st |-> st, out |-> cands, raised |-> FALSE]
    ELSE LET Scored(decoded, r) ==
                 IF ~FieldOk(r.value) THEN [st |-> r, out |-> cands, raised |-> TRUE]
                 ELSE DetectLoop(r, s, i + 1,
                                 Append(cands, DetectionCandidate(DECODERS[i], r.value,
                                                                  decoded.text)))
             Step(decoded) == IF ~decoded.ok THEN DetectLoop(st, s, i + 1, cands)
                              ELSE Scored(decoded, LruCall(st, decoded.text))
         IN  Step(Decode(i, s))

detect_encoding(st, s, top_k) ==
    LET Ranked(run) ==
            [st |-> run.st,
             ret |-> IF run.raised THEN Raised("detect_encoding", "ValidationError")
                     ELSE Returned("detect_encoding",
                                   Slice(SortDesc(run.out, Scores(run.out)), top_k))]
    IN  Ranked(DetectLoop(st, s, 1, <<>>))

\* the loop of decode_common: a decoded text already seen is skipped, and the
\* loop stops once limit candidates are collected
RECURSIVE CommonLoop(_, _, _, _, _)
CommonLoop(st, s, limit, i, out) ==
    IF i > Len(DECODERS) THEN [st |-> st, out |-> out, raised |-> FALSE]
    ELSE LET Added(r, next) ==
                 IF Len(next) >= limit THEN [st |-> r, out |-> next, raised |-> FALSE]
                 ELSE CommonLoop(r, s, limit, i + 1, next)
             Scored(decoded, r) ==
                 IF ~FieldOk(r.value) THEN [st |-> r, out |-> out, raised |-> TRUE]
                 ELSE Added(r, Append(out, DetectionCandidate(DECODERS[i], r.value,
                                                              decoded.text)))
             Step(decoded) ==
                 IF ~decoded.ok \/ \E j \in 1..Len(out) : out[j].decoded = decoded.text
                 THEN CommonLoop(st, s, limit, i + 1, out)
                 ELSE Scored(decoded, LruCall(st, decoded.text))
         IN  Step(Decode(i, s))

decode_common(st, s, limit) ==
    LET Ranked(run) ==
            [st |-> run.st,
             ret |-> IF run.raised THEN Raised("decode_common", "ValidationError")
                     ELSE Returned("decode_common", SortDesc(run.out, Scores(run.out)))]
    IN  Ranked(CommonLoop(st, s, limit, 1, <<>>))

----------------------------------------------------------------------------
(* Inputs *)

\* the strings over the characters of alphabet, up to n long
Strings(alphabet, n) == UNION {[1..k -> alphabet] : k \in 0..n}

\* "e", "}"
PadAlphabet == {101, 125}

\* the heads of the tools' inputs: "", "uif", "{}", "key{}", "lfz{}", "ke{y}",
\* "a e", "etetetet", "KEY{A}XY", the hex of "key{}" and of "th", the base64
\* of "key{}" and of "th"
ToolHeads ==
    { <<>>,
      <<117, 105, 102>>,
      <<123, 125>>,
      <<107, 101, 121, 123, 125>>,
      <<108, 102, 122, 123, 125>>,
      <<107, 101, 123, 121, 125>>,
      <<97, 32, 101>>,
      <<101, 116, 101, 116, 101, 116, 101, 116>>,
      <<75, 69, 89, 123, 65, 125, 88, 89>>,
      <<54, 98, 54, 53, 55, 57, 55, 98, 55, 100>>,
      <<55, 52, 54, 56>>,
      <<97, 50, 86, 53, 101, 51, 48, 61>>,
      <<100, 71, 103, 61>> }

ToolTexts == {h \o p : h \in ToolHeads, p \in Strings(PadAlphabet, MaxPad)}

TopKs == {1, 3, 400}
SearchBounds == {2, 3}
MinKeys == {2, 3}
Encodings == {"hex", "b64", "raw"}
Limits == {0, 1, 3, 400}

----------------------------------------------------------------------------
(* The tools as operations of the server: one call of one tool on text *)

St == [cache |-> cache, hits |-> hits, misses |-> misses]

Idle == [tool |-> "none", status |-> "idle", value |-> <<>>]

Call(tool, arg, top_k, bound, min_key, encoding) ==
    [tool |-> tool, arg |-> arg, top_k |-> top_k, bound |-> bound, min_key |-> min_key,
     encoding |-> encoding]

NoCall == Call("none", <<>>, 0, 0, 0, "")

\* the call c ran and left r = [st, ret]
Done(c, r) ==
    /\ call' = c
    /\ ret' = r.ret
    /\ cache' = r.st.cache
    /\ hits' = r.st.hits
    /\ misses' = r.st.misses
    /\ UNCHANGED <<text, log, pool>>

RotAll ==
    /\ ret.status = "idle"
    /\ \E top_k \in TopKs :
          LET r == rot_all(St, text, top_k)
          IN  Done(Call("rot_all", text, top_k, 0, 0, ""), r)

CaesarBreak ==
    /\ ret.status = "idle"
    /\ LET r == caesar_break(St, text)
       IN  Done(Call("caesar_break", text, 0, 0, 0, ""), r)

VigenereBreak ==
    /\ ret.status = "idle"
    /\ \E top_k \in TopKs, max_key_len \in SearchBounds :
          LET r == vigenere_break(St, text, max_key_len, top_k)
          IN  Done(Call("vigenere_break", text, top_k, max_key_len, 0, ""), r)

AffineBreak ==
    /\ ret.status = "idle"
    /\ \E top_k \in TopKs :
          LET r == affine_break(St, text, top_k)
          IN  Done(Call("affine_break", text, top_k, 0, 0, ""), r)

RailFenceBreak ==
    /\ ret.status = "idle"
    /\ \E top_k \in TopKs, max_rails \in SearchBounds :
          LET r == rail_fence_break(St, text, max_rails, top_k)
          IN  Done(Call("rail_fence_break", text, top_k, max_rails, 0, ""), r)

TranspositionBreak ==
    /\ ret.status = "idle"
    /\ \E top_k \in TopKs, max_key_len \in SearchBounds :
          LET r == transposition_break(St, text, max_key_len, top_k)
          IN  Done(Call("transposition_break", text, top_k, max_key_len, 0, ""), r)

XorSingleBreak ==
    /\ ret.status = "idle"
    /\ \E top_k \in TopKs, encoding \in Encodings :
          LET r == xor_single_break(St, text, encoding, top_k)
          IN  Done(Call("xor_single_break", text, top_k, 0, 0, encoding), r)

XorRepeatingBreak ==
    /\ ret.status = "idle"
    /\ \E min_key \in MinKeys, max_key \in SearchBounds, encoding \in Encodings :
          LET r == xor_repeating_break(St, text, encoding, min_key, max_key)
          IN  Done(Call("xor_repeating_break", text, 0, max_key, min_key, encoding), r)

DetectEncoding ==
    /\ ret.status = "idle"
    /\ \E top_k \in TopKs :
          LET r == detect_encoding(St, text, top_k)
          IN  Done(Call("detect_encoding", text, top_k, 0, 0, ""), r)

DecodeCommon ==
    /\ ret.status = "idle"
    /\ \E limit \in Limits :
          LET r == decode_common(St, text, limit)
          IN  Done(Call("decode_common", text, limit, 0, 0, ""), r)

Init ==
    /\ text \in ToolTexts
    /\ call = NoCall
    /\ ret = Idle
    /\ cache = <<>>
    /\ hits = 0
    /\ misses = 0
    /\ log = <<>>
    /\ pool = <<>>

Next ==
    \/ RotAll
    \/ CaesarBreak
    \/ VigenereBreak
    \/ AffineBreak
    \/ RailFenceBreak
    \/ TranspositionBreak
    \/ XorSingleBreak
    \/ XorRepeatingBreak
    \/ DetectEncoding
    \/ DecodeCommon

Spec == Init /\ [][Next]_vars

----------------------------------------------------------------------------
(* The scorer on its own: english_score on a text, on text.lower() and on *)
(* text.upper()                                                           *)

\* "e", "T", "}", line feed, NUL
ScoreAlphabet == {101, 84, 125, 10, 0}

\* the heads of the scorer's inputs: "", "th", "Th", "key{", "KEY{x", "sEcReT{",
\* "ctf{}", "flag", "{", "e-acute", NUL NUL NUL "key{", U+017F "ecret{"
ScoreHeads ==
    { <<>>,
      <<116, 104>>,
      <<84, 104>>,
      <<107, 101, 121, 123>>,
      <<75, 69, 89, 123, 120>>,
      <<115, 69, 99, 82, 101, 84, 123>>,
      <<99, 116, 102, 123, 125>>,
      <<102, 108, 97, 103>>,
      <<123>>,
      <<233>>,
      <<0, 0, 0, 107, 101, 121, 123>>,
      <<383, 101, 99, 114, 101, 116, 123>> }

ScoreTexts == {h \o p : h \in ScoreHeads, p \in Strings(ScoreAlphabet, MaxLen)}

\* one call english_score(s) through the cache
EnglishScore(s) ==
    LET Called(r) ==
            /\ call' = Call("english_score", s, 0, 0, 0, "")
            /\ ret' = Returned("english_score", r.value)
            /\ cache' = r.cache
            /\ hits' = r.hits
            /\ misses' = r.misses
            /\ log' = Append(log, [op |-> "call", arg |-> s, value |-> r.value])
            /\ UNCHANGED <<text, pool>>
    IN  Called(LruCall(St, s))

\* english_score.cache_clear()
CacheClear ==
    /\ Len(log) < MaxCalls
    /\ call' = Call("cache_clear", <<>>, 0, 0, 0, "")
    /\ ret' = Returned("cache_clear", <<>>)
    /\ cache' = LruClear.cache
    /\ hits' = LruClear.hits
    /\ misses' = LruClear.misses
    /\ log' = Append(log, [op |-> "clear", arg |-> <<>>, value |-> Score0])
    /\ UNCHANGED <<text, pool>>

\* the inputs scored so far
Scored == {log[i].arg : i \in {j \in 1..Len(log) : log[j].op = "call"}}

\* the text and, for an ASCII text, its lower-case and its upper-case form
Variants(s) == {s} \cup (IF IsAscii(s) THEN {Lower(s), Upper(s)} ELSE {})

\* the text, text.lower() and text.upper(), each scored once: a repeated input
\* is answered from the cache, which SpecCache explores
ScoreVariant ==
    \E s \in Variants(text) :
        /\ s \notin Scored
        /\ EnglishScore(s)

InitScore ==
    /\ text \in ScoreTexts
    /\ call = NoCall
    /\ ret = Idle
    /\ cache = <<>>
    /\ hits = 0
    /\ misses = 0
    /\ log = <<>>
    /\ pool = <<>>

NextScore == ScoreVariant

SpecScore == InitScore /\ [][NextScore]_vars

----------------------------------------------------------------------------
(* The cache on its own: any sequence of calls and clears *)

\* "", "e", "th", "key{}"
CacheInputs == {<<>>, <<101>>, <<116, 104>>, <<107, 101, 121, 123, 125>>}

ScoreCall ==
    /\ Len(log) < MaxCalls
    /\ \E s \in CacheInputs : EnglishScore(s)

InitCache ==
    /\ text = <<>>
    /\ call = NoCall
    /\ ret = Idle
    /\ cache = <<>>
    /\ hits = 0
    /\ misses = 0
    /\ log = <<>>
    /\ pool = <<>>

NextCache == ScoreCall \/ CacheClear

SpecCache == InitCache /\ [][NextCache]_vars

----------------------------------------------------------------------------
(* xor_single_break with its thread pool: executor.map(try_key, range(256))  *)
(* hands the keys to the workers in order; a worker's english_score call     *)
(* looks the text up in the shared cache and, on a miss, computes the score  *)
(* and stores it later, other workers running in between; the results are    *)
(* read in the order of the keys, whatever the order the workers finish in   *)

\* "7468", "6b65797b7d": the hex of "th" and of "key{}"
XorTexts ==
    { <<55, 52, 54, 56>>,
      <<54, 98, 54, 53, 55, 57, 55, 98, 55, 100>> }

XorTopKs == {1, 400}

Running(status) == [tool |-> "xor_single_break", status |-> status, value |-> <<>>]

\* xor_single_break is called: _parse_data, then the executor starts
XorSubmit ==
    /\ ret.status = "idle"
    /\ \E top_k \in XorTopKs, encoding \in Encodings :
          LET Parsed(p) ==
                  /\ call' = Call("xor_single_break", text, top_k, 0, 0, encoding)
                  /\ ret' = IF p.ok THEN Running("running")
                            ELSE Raised("xor_single_break", "ValueError")
                  /\ pool' = IF p.ok
                             THEN [b |-> p.bytes, next |-> 0, running |-> {}, done |-> {}]
                             ELSE <<>>
          IN  Parsed(_parse_data(text, encoding))
    /\ UNCHANGED <<text, cache, hits, misses, log>>

\* an idle worker takes the next key from the queue
XorTake ==
    /\ ret.status = "running"
    /\ pool.next < 256
    /\ Cardinality(pool.running) < Workers
    /\ \A t \in pool.running : pool.next - t.k < MaxAhead
    /\ pool' = [pool EXCEPT !.next = @ + 1,
                            !.running = @ \cup {[k |-> pool.next, phase |-> "lookup"]}]
    /\ UNCHANGED <<text, call, ret, cache, hits, misses, log>>

\* the plaintext of the key k
XorText(k) == try_key(pool.b, k).plaintext

\* try_key(k) ends: the BreakResult, or the ValidationError it raised, is the
\* result of the key's future
Finished(t, v) ==
    [pool EXCEPT !.running = @ \ {t}, !.done = @ \cup {[k |-> t.k, score |-> v]}]

\* a worker's english_score call looks its text up: a hit ends the call
XorLookup ==
    /\ ret.status = "running"
    /\ \E t \in pool.running :
          /\ t.phase = "lookup"
          /\ IF XorText(t.k) \in CacheKeys(cache)
             THEN /\ hits' = hits + 1
                  /\ misses' = misses
                  /\ cache' = LruHit(cache, XorText(t.k))
                  /\ pool' = Finished(t, cache[CacheIndex(cache, XorText(t.k))][2])
             ELSE /\ hits' = hits
                  /\ misses' = misses + 1
                  /\ cache' = cache
                  /\ pool' = [pool EXCEPT !.running =
                                  (@ \ {t}) \cup {[k |-> t.k, phase |-> "compute"]}]
    /\ UNCHANGED <<text, call, ret, log>>

\* after a miss the worker computes the score and stores it
XorStore ==
    /\ ret.status = "running"
    /\ \E t \in pool.running :
          /\ t.phase = "compute"
          /\ LET Stored(s, v) ==
                      /\ cache' = LruStore(cache, s, v)
                      /\ pool' = Finished(t, v)
             IN  Stored(XorText(t.k), english_score(XorText(t.k)))
    /\ UNCHANGED <<text, call, ret, hits, misses, log>>

\* the score the future of the key k holds
ScoreOfKey(p, k) == (CHOOSE d \in p.done : d.k = k).score

\* list(executor.map(...)): the results in the order of the keys
XorResults(p) ==
    [i \in 1..256 |->
        BreakResult("XOR-single", try_key(p.b, i - 1).plaintext, Str(i - 1),
                    ScoreOfKey(p, i - 1))]

\* the future of the key k is done and holds a ValidationError
FutureRaised(p, k) == \E d \in p.done : d.k = k /\ ~FieldOk(d.score)

\* the main thread reads the results in key order.  It raises at the first
\* future that holds an exception, which cancels the keys not yet taken and
\* waits for the running workers; otherwise it sorts and returns
XorCollect ==
    /\ ret.status = "running"
    /\ pool.running = {}
    /\ IF \E k \in 0..(pool.next - 1) : FutureRaised(pool, k)
       THEN ret' = Raised("xor_single_break", "ValidationError")
       ELSE /\ pool.next = 256
            /\ LET Ranked(results) ==
                       ret' = Returned("xor_single_break",
                                       Slice(SortDesc(results, Confidences(results)),
                                             call.top_k))
               IN  Ranked(XorResults(pool))
    /\ pool' = <<>>
    /\ UNCHANGED <<text, call, cache, hits, misses, log>>

InitXor ==
    /\ text \in XorTexts
    /\ call = NoCall
    /\ ret = Idle
    /\ cache = <<>>
    /\ hits = 0
    /\ misses = 0
    /\ log = <<>>
    /\ pool = <<>>

NextXor ==
    \/ XorSubmit
    \/ XorTake
    \/ XorLookup
    \/ XorStore
    \/ XorCollect
    \/ RotAll
    \/ VigenereBreak
    \/ AffineBreak
    \/ RailFenceBreak
    \/ TranspositionBreak
    \/ DetectEncoding
    \/ DecodeCommon

SpecXor == InitXor /\ [][NextXor]_vars

----------------------------------------------------------------------------
(* Properties of the scorer, checked under SpecScore *)

\* the calls of english_score made so far, each with the value it returned
ScoreCalls == {log[i] : i \in {j \in 1..Len(log) : log[j].op = "call"}}

\* fewer than 70% of the characters of s are printable
MostlyUnprintable(s) == 10 * Cardinality({i \in 1..Len(s) : IsPrintable(s[i])}) < 7 * Len(s)

\* s holds one of the words flag, ctf, key, secret in any case, then "{", then
\* characters none of which is in `barred`, then "}"
HoldsMarker(s, barred) ==
    \E i \in 1..Len(s), e \in 1..Len(s), w \in FlagWords :
        /\ i + Len(w) < e
        /\ [j \in 1..Len(w) |-> FoldChar(s[i + j - 1])] = w
        /\ s[i + Len(w)] = 123
        /\ s[e] = 125
        /\ \A x \in (i + Len(w) + 1)..(e - 1) : s[x] \notin barred

\* C6: english_score(s) is either exactly the sentinel 10.0 or a value in
\* [0, 1]; it is 0 for the empty string and never negative.
C6_ScoreRange ==
    \A c \in ScoreCalls :
        /\ c.value = FlagScore \/ (ScoreLe(Score0, c.value) /\ ScoreLe(c.value, Score1))
        /\ c.arg = <<>> => c.value = Score0

\* a text whose weighted total exceeds 1 was scored, and scored 1
C6_Witness ==
    \E c \in ScoreCalls :
        /\ c.value = Score1
        /\ SubSeq(c.arg, 1, 2) = <<116, 104>>

\* C7 as stated: english_score(s) is the sentinel exactly when s holds a
\* trigger word in any case, then "{", any characters, and "}".
C7_MarkerAnyCharacters ==
    \A c \in ScoreCalls : c.value = FlagScore <=> HoldsMarker(c.arg, {})

\* C7 as amended: english_score(s) is the sentinel exactly when s holds a
\* trigger word in any case, then "{", any characters other than a line
\* feed, and "}"; the sentinel is returned whatever the printable fraction.
C7_MarkerOnOneLine ==
    \A c \in ScoreCalls : c.value = FlagScore <=> HoldsMarker(c.arg, {10})

\* a mostly unprintable text, and a text with a line feed, scored the sentinel
C7_Witness ==
    \E c \in ScoreCalls :
        /\ c.value = FlagScore
        /\ MostlyUnprintable(c.arg) \/ \E i \in 1..Len(c.arg) : c.arg[i] = 10

\* C8 as stated: every string in which fewer than 70% of the characters are
\* printable scores 0.
C8_UnprintableScoresZero ==
    \A c \in ScoreCalls : MostlyUnprintable(c.arg) => c.value = Score0

\* C8 as amended: every string in which fewer than 70% of the characters are
\* printable, and which does not match the marker pattern, scores 0.
C8_UnprintableUnmarkedScoresZero ==
    \A c \in ScoreCalls :
        MostlyUnprintable(c.arg) /\ ~HoldsMarker(c.arg, {10}) => c.value = Score0

\* a text that is half letters and half unprintable scored 0
C8_Witness ==
    \E c \in ScoreCalls :
        /\ MostlyUnprintable(c.arg)
        /\ 2 * Cardinality({i \in 1..Len(c.arg) : IsAlpha(c.arg[i])}) >= Len(c.arg)
        /\ c.value = Score0

\* C9: for an ASCII string s, english_score(s), english_score(s.lower()) and
\* english_score(s.upper()) are equal.
C9_CaseInvariant ==
    IsAscii(text) => \A a \in ScoreCalls, b \in ScoreCalls : a.value = b.value

\* three different forms of one text were scored, strictly between 0 and 1
C9_Witness ==
    /\ Cardinality(Scored) = 3
    /\ \E c \in ScoreCalls : ScoreLt(Score0, c.value) /\ ScoreLt(c.value, Score1)

----------------------------------------------------------------------------
(* Properties of the order of the results, checked under SpecXor *)

\* the decimal string d as a number
RECURSIVE Num(_)
Num(d) == IF Len(d) = 0 THEN 0 ELSE 10 * Num(SubSeq(d, 1, Len(d) - 1)) + (d[Len(d)] - 48)

\* the characters of s before the first c, and after it
Before(s, c) == SubSeq(s, 1, (CHOOSE i \in 1..Len(s) : s[i] = c /\ \A j \in 1..(i - 1) : s[j] # c) - 1)
After(s, c) == SubSeq(s, Len(Before(s, c)) + 2, Len(s))

\* s without its dashes
RECURSIVE Undashed(_)
Undashed(s) ==
    IF Len(s) = 0 THEN <<>>
    ELSE (IF Head(s) = 45 THEN <<>> ELSE <<Head(s)>>) \o Undashed(Tail(s))

\* where the enumeration of the tool meets the candidate c: the shift, the
\* rail count or the key byte; 26 * a + b for the affine key "a=<a>,b=<b>";
\* the key length for Vigenere; key length, then the permutation read as a
\* number, for the transposition; the decoder's place in DECODERS
EnumIndex(tool, c) ==
    CASE tool \in {"rot_all", "rail_fence_break", "xor_single_break"} -> Num(c.key)
      [] tool = "affine_break" ->
             26 * Num(SubSeq(Before(c.key, 44), 3, Len(Before(c.key, 44))))
             + Num(SubSeq(After(c.key, 44), 3, Len(After(c.key, 44))))
      [] tool = "vigenere_break" -> Len(c.key)
      [] tool = "transposition_break" -> 1000 * Len(c.key) + Num(Undashed(c.key))
      [] tool \in {"detect_encoding", "decode_common"} ->
             CHOOSE i \in 1..Len(DECODERS) : DECODERS[i] = c.name

\* the score of the candidate c of the tool
ScoreIn(tool, c) == IF tool \in {"detect_encoding", "decode_common"} THEN c.score ELSE c.confidence

\* C4: in every enumerator's returned list, candidates with equal score
\* appear in key-enumeration order; xor_single_break returns, for every
\* interleaving and completion order of its workers, the list its keys tried
\* one after the other give, so two calls with the same input agree.
C4_TiesInEnumerationOrder ==
    ret.status = "returned" /\ ret.tool # "cache_clear" =>
        /\ \A i \in 1..Len(ret.value), j \in 1..Len(ret.value) :
              i < j /\ ScoreIn(ret.tool, ret.value[i]) = ScoreIn(ret.tool, ret.value[j]) =>
                  EnumIndex(ret.tool, ret.value[i]) < EnumIndex(ret.tool, ret.value[j])
        /\ ret.tool = "xor_single_break" =>
              ret = xor_single_break(St, call.arg, call.encoding, call.top_k).ret

\* xor_single_break, its keys scored by the workers with hits in the shared
\* cache, returned a list whose first two candidates have equal scores
C4_Witness ==
    /\ ret.status = "returned"
    /\ ret.tool = "xor_single_break"
    /\ Len(ret.value) > 1
    /\ ret.value[1].confidence = ret.value[2].confidence
    /\ hits > 0

----------------------------------------------------------------------------
(* Properties of the cache, checked under SpecCache *)

\* the position in log of the last cache_clear, 0 when there is none
LastClear ==
    LET clears == {i \in 1..Len(log) : log[i].op = "clear"}
    IN  IF clears = {} THEN 0 ELSE CHOOSE i \in clears : \A j \in clears : j <= i

\* the position in log of the last call that scored s
LastUse(s) ==
    LET uses == {i \in 1..Len(log) : log[i].op = "call" /\ log[i].arg = s}
    IN  CHOOSE i \in uses : \A j \in uses : j <= i

\* the distinct inputs scored since the last clear
SinceClear == {log[i].arg : i \in (LastClear + 1)..Len(log)}

\* C10: the cache never holds more than its capacity, and it holds the
\* min(capacity, d) most recently used of the d distinct inputs scored since
\* the last clear, so a miss on a full cache evicts the least recently used.
C10_MostRecentlyUsed ==
    /\ Len(cache) <= maxsize
    /\ Len(cache) = Min(maxsize, Cardinality(SinceClear))
    /\ CacheKeys(cache) =
          {s \in SinceClear :
              Cardinality({t \in SinceClear : LastUse(t) > LastUse(s)}) < maxsize}

\* a full cache evicted an entry after one of its entries had been hit
C10_Witness ==
    /\ Cardinality(SinceClear) > maxsize
    /\ Len(cache) = maxsize
    /\ hits >= 1

\* the last step of the behaviour was the call english_score(s)
Scoring(s) ==
    /\ Len(log') = Len(log) + 1
    /\ log'[Len(log')].op = "call"
    /\ log'[Len(log')].arg = s

\* C11: every english_score call increments exactly one of hits and misses,
\* hits exactly when the input is cached, and returns the value the scorer
\* computes for it; cache_clear sets hits, misses and the size to 0, so that
\* the next call is a miss.
C11_CountersAccount ==
    [][LET Counted(s) ==
               /\ ret'.value = english_score(s)
               /\ IF s \in CacheKeys(cache)
                  THEN hits' = hits + 1 /\ misses' = misses
                  ELSE hits' = hits /\ misses' = misses + 1
           Cleared == hits' = 0 /\ misses' = 0 /\ Len(cache') = 0
       IN  /\ \A s \in CacheInputs : Scoring(s) => Counted(s)
           /\ (call'.tool = "cache_clear") => Cleared
           /\ (call.tool = "cache_clear" /\ call'.tool = "english_score") => misses' = 1]_vars

\* after a clear, an input was scored and then answered from the cache
C11_Witness ==
    /\ LastClear > 0
    /\ hits = 1
    /\ misses = 1

----------------------------------------------------------------------------
(* Properties of the tools, checked under Spec *)

CrackingTools ==
    {"rot_all", "caesar_break", "vigenere_break", "affine_break", "rail_fence_break",
     "transposition_break", "xor_single_break", "xor_repeating_break"}

XorTools == {"xor_single_break", "xor_repeating_break"}

DecodeTools == {"detect_encoding", "decode_common"}

\* the enumerators that return a list
ListTools == (CrackingTools \ {"caesar_break", "xor_repeating_break"}) \cup DecodeTools

\* the last call returned a list
ReturnedList == ret.status = "returned" /\ ret.tool \in ListTools

\* the confidence of a BreakResult, the score of a DetectionCandidate
ScoreOf(c) == IF ret.tool \in DecodeTools THEN c.score ELSE c.confidence

\* the payload of the last call decodes under its stated encoding
PayloadDecodes == ret.tool \in XorTools => _parse_data(call.arg, call.encoding).ok

\* C1: for every ciphertext (for the XOR tools every payload that decodes),
\* every top_k >= 1 and every search bound >= 2, each cracking tool returns a
\* structured result and never raises, also when a candidate plaintext matches
\* the marker pattern.
C1_CrackersNeverRaise ==
    ret.tool \in CrackingTools /\ PayloadDecodes => ret.status = "returned"

\* C2: for every text and every top_k or limit >= 1, detect_encoding and
\* decode_common return a list without raising, and every candidate's score
\* is in [0, 1], also when a decoded form matches the marker pattern.
C2_DetectorsNeverRaise ==
    ret.tool \in DecodeTools /\ call.top_k >= 1 =>
        /\ ret.status = "returned"
        /\ \A i \in 1..Len(ret.value) :
              ScoreLe(Score0, ret.value[i].score) /\ ScoreLe(ret.value[i].score, Score1)

\* the returned list is non-increasing in score from first to last
NonIncreasing ==
    \A i \in 1..(Len(ret.value) - 1) : ScoreLe(ScoreOf(ret.value[i + 1]), ScoreOf(ret.value[i]))

\* the texts of the decoders that succeed on s
Decodes(s) == {Decode(i, s).text : i \in {j \in 1..Len(DECODERS) : Decode(j, s).ok}}

PlaintextsOf(cands) == {cands[i].plaintext : i \in 1..Len(cands)}

\* the plaintexts of the whole key space the last call enumerates
KeySpace ==
    CASE ret.tool = "rot_all" -> PlaintextsOf(RotCandidates(call.arg))
      [] ret.tool = "affine_break" -> PlaintextsOf(AffineCandidates(call.arg))
      [] ret.tool = "rail_fence_break" -> PlaintextsOf(RailCandidates(call.arg, call.bound))
      [] ret.tool = "transposition_break" ->
             PlaintextsOf(TranspositionCandidates(call.arg, 2, call.bound))
      [] ret.tool = "vigenere_break" ->
             PlaintextsOf(VigCands(St, call.arg, 2, call.bound, <<>>).cands)
      [] ret.tool = "xor_single_break" ->
             PlaintextsOf(XorCandidates(_parse_data(call.arg, call.encoding).bytes))
      [] ret.tool \in DecodeTools -> Decodes(call.arg)

\* no plaintext of the set scores above the first element of the list
FirstIsMaximumOf(plaintexts) ==
    \A p \in plaintexts : ScoreLe(english_score(p), ScoreOf(ret.value[1]))

\* C3 as stated, for top_k >= 1: the list every list-returning enumerator
\* returns is non-increasing in score, and its first element has the maximum
\* score over the whole enumerated key space.
C3_FirstIsMaximum ==
    ReturnedList /\ call.top_k >= 1 /\ Len(ret.value) > 0 =>
        NonIncreasing /\ FirstIsMaximumOf(KeySpace)

\* C3 as amended: the list is non-increasing in score, and its first element
\* has the maximum score over the whole enumerated key space, for
\* decode_common over the candidates it collected before reaching its limit.
C3_FirstIsMaximumCollected ==
    ReturnedList /\ Len(ret.value) > 0 =>
        /\ NonIncreasing
        /\ ret.tool # "decode_common" => FirstIsMaximumOf(KeySpace)

\* an enumerator returned a list whose first element scores above its second
C3_Witness ==
    /\ ReturnedList
    /\ ret.tool # "decode_common"
    /\ Len(ret.value) > 1
    /\ ScoreLt(ScoreOf(ret.value[2]), ScoreOf(ret.value[1]))

\* the keys of the returned candidates
Keys == [i \in 1..Len(ret.value) |-> ret.value[i].key]

\* the returned candidates are n, with pairwise distinct keys that are the
\* decimal strings of lo..hi
CountAndKeys(n, lo, hi) ==
    /\ ret.status = "returned"
    /\ Len(ret.value) = n
    /\ \A i \in 1..n : \E k \in lo..hi : Keys[i] = Str(k)
    /\ \A i \in 1..n, j \in 1..n : i # j => Keys[i] # Keys[j]

\* C5: for every text and K >= 1, rot_all returns exactly min(K, 25)
\* candidates with pairwise distinct keys in "1".."25", xor_single_break
\* exactly min(K, 256) with distinct keys in 0..255, and affine_break exactly
\* min(K, 312).
C5_CandidateCounts ==
    /\ ret.tool = "rot_all" => CountAndKeys(Min(call.top_k, 25), 1, 25)
    /\ ret.tool = "xor_single_break" /\ PayloadDecodes =>
           CountAndKeys(Min(call.top_k, 256), 0, 255)
    /\ ret.tool = "affine_break" =>
           ret.status = "returned" /\ Len(ret.value) = Min(call.top_k, 312)

\* C17: for every text and limit >= 0, decode_common returns at most limit
\* candidates, no two with the same decoded text.
C17_AtMostLimitDistinct ==
    ret.tool = "decode_common" =>
        /\ ret.status = "returned"
        /\ Len(ret.value) <= call.top_k
        /\ \A i \in 1..Len(ret.value), j \in 1..Len(ret.value) :
              i # j => ret.value[i].decoded # ret.value[j].decoded

\* an even number of hexadecimal digits, at least two
IsHexString(s) ==
    /\ Len(s) > 0
    /\ Len(s) % 2 = 0
    /\ \A i \in 1..Len(s) : s[i] \in (48..57) \cup (65..70) \cup (97..102)

\* C18: for every valid hex string, decode_common with a limit of at least
\* the number of decoders returns a candidate named "hex" whose decoded text
\* is the hex-decoded input.
C18_HexCandidate ==
    ret.tool = "decode_common" /\ IsHexString(call.arg) /\ call.top_k >= Len(DECODERS) =>
        /\ ret.status = "returned"
        /\ \E i \in 1..Len(ret.value) :
              /\ ret.value[i].name = "hex"
              /\ ret.value[i].decoded = DecodeIgnore(FromHex(call.arg, 1, <<>>).bytes)

----------------------------------------------------------------------------
(* tools/classic.py: playfair_decrypt, playfair_break *)

\* the letters a..z with "i" in the place of "j"
PlayfairLetter(c) == IF c = 106 THEN 105 ELSE c

\* q without the later occurrences of a character
RECURSIVE FirstOccurrences(_, _)
FirstOccurrences(q, used) ==
    IF Len(q) = 0 THEN <<>>
    ELSE IF Head(q) \in used THEN FirstOccurrences(Tail(q), used)
         ELSE <<Head(q)>> \o FirstOccurrences(Tail(q), used \cup {Head(q)})

\* norm(key_hint): the letters a..z of the lowered key, then the alphabet,
\* each once, "j" taken as "i": the 25 cells of the table, row by row
norm(s) ==
    LET kept == SelectSeq(Lower(s), IsLower)
        all == kept \o [i \in 1..26 |-> 96 + i]
    IN  SubSeq(FirstOccurrences([i \in 1..Len(all) |-> PlayfairLetter(all[i])], {}), 1, 25)

\* ct: every character of the ciphertext with isalpha() true, lowered, "j"
\* taken as "i"
RECURSIVE PlayfairLetters(_)
PlayfairLetters(s) ==
    IF Len(s) = 0 THEN <<>>
    ELSE (IF ~IsAlpha(Head(s)) THEN <<>>
          ELSE IF Lower(<<Head(s)>>) = <<106>> THEN <<105>>
          ELSE Lower(<<Head(s)>>)) \o PlayfairLetters(Tail(s))

\* the pairs of ct from index i (from 0): a doubled letter is split by "x",
\* and "x" fills a last pair
RECURSIVE PlayfairPairs(_, _)
PlayfairPairs(ct, i) ==
    IF i >= Len(ct) THEN <<>>
    ELSE LET a == ct[i + 1]
             b == IF i + 1 < Len(ct) THEN ct[i + 2] ELSE 120
         IN  IF a = b THEN <<<<a, 120>>>> \o PlayfairPairs(ct, i + 1)
             ELSE <<<<a, b>>>> \o PlayfairPairs(ct, i + 2)

\* the two characters a pair decrypts to; pos[ch] = (i // 5, i % 5)
PlayfairPair(table, pair) ==
    LET i == IndexOf(table, pair[1])
        j == IndexOf(table, pair[2])
        ra == i \div 5
        ca == i % 5
        rb == j \div 5
        cb == j % 5
    IN  IF ra = rb
        THEN <<table[(ra * 5) + ((ca - 1) % 5) + 1], table[(rb * 5) + ((cb - 1) % 5) + 1]>>
        ELSE IF ca = cb
        THEN <<table[(((ra - 1) % 5) * 5) + ca + 1], table[(((rb - 1) % 5) * 5) + cb + 1]>>
        ELSE <<table[(ra * 5) + cb + 1], table[(rb * 5) + ca + 1]>>

RECURSIVE PlayfairOut(_, _)
PlayfairOut(table, pairs) ==
    IF Len(pairs) = 0 THEN <<>>
    ELSE PlayfairPair(table, Head(pairs)) \o PlayfairOut(table, Tail(pairs))

\* playfair_decrypt: [ok |-> FALSE] stands for the KeyError of pos[a] or
\* pos[b] on a character that is not in the table
playfair_decrypt(ciphertext, key_hint) ==
    LET table == norm(key_hint)
        pairs == PlayfairPairs(PlayfairLetters(ciphertext), 0)
        cells == {table[i] : i \in 1..Len(table)}
    IN  IF \E p \in 1..Len(pairs) : pairs[p][1] \notin cells \/ pairs[p][2] \notin cells
        THEN [ok |-> FALSE, text |-> <<>>]
        ELSE [ok |-> TRUE, text |-> PlayfairOut(table, pairs)]

\* playfair_break; key_hint is None or Some(str), top_k is not used
playfair_break(st, ciphertext, key_hint, top_k) ==
    IF ~key_hint.ok \/ Len(key_hint.text) = 0
    THEN [st |-> st,
          ret |-> Returned("playfair_break", <<BreakResult("Playfair", <<>>, None, Score0)>>)]
    ELSE LET Wrapped(pt, r) ==
                 [st |-> r,
                  ret |-> IF FieldOk(r.value)
                          THEN Returned("playfair_break",
                                        <<BreakResult("Playfair", pt, key_hint.text, r.value)>>)
                          ELSE Raised("playfair_break", "ValidationError")]
             Decrypted(d) ==
                 IF ~d.ok THEN [st |-> st, ret |-> Raised("playfair_break", "KeyError")]
                 ELSE Wrapped(d.text, LruCall(st, d.text))
         IN  Decrypted(playfair_decrypt(ciphertext, key_hint.text))

----------------------------------------------------------------------------
(* tools/number.py *)

\* pow(a, d, n)
RECURSIVE _powmod(_, _, _)
_powmod(a, d, n) ==
    IF d = 0 THEN 1 % n
    ELSE IF d % 2 = 0
         THEN LET Sq(h) == (h * h) % n IN Sq(_powmod(a, d \div 2, n))
         ELSE ((a % n) * _powmod(a, d - 1, n)) % n

\* the loop over small: the first p in small[i..] that divides n decides
RECURSIVE SmallDivisor(_, _, _)
SmallDivisor(n, small, i) ==
    IF i > Len(small) THEN 0
    ELSE IF n % small[i] = 0 THEN small[i]
    ELSE SmallDivisor(n, small, i + 1)

\* for _ in range(s - 1): x = x * x % n, TRUE when x reaches n - 1
RECURSIVE SquaresReach(_, _, _)
SquaresReach(x, n, rounds) ==
    IF rounds <= 0 THEN FALSE
    ELSE LET Sq(x1) == IF x1 = n - 1 THEN TRUE ELSE SquaresReach(x1, n, rounds - 1)
         IN  Sq((x * x) % n)

\* d and s with n - 1 = d * 2^s, d odd
RECURSIVE OddPart(_, _)
OddPart(d, s) == IF d % 2 = 0 THEN OddPart(d \div 2, s + 1) ELSE [d |-> d, s |-> s]

\* the loop over bases: a base that is a witness of compositeness returns False
RECURSIVE BasesPass(_, _, _, _)
BasesPass(n, ds, bases, i) ==
    IF i > Len(bases) THEN TRUE
    ELSE IF bases[i] % n = 0 THEN BasesPass(n, ds, bases, i + 1)
    ELSE LET Round(x) ==
                 IF x = 1 \/ x = n - 1 \/ SquaresReach(x, n, ds.s - 1)
                 THEN BasesPass(n, ds, bases, i + 1)
                 ELSE FALSE
         IN  Round(_powmod(bases[i], ds.d, n))

_is_probable_prime(n) ==
    IF n < 2 THEN FALSE
    ELSE LET Small(p) ==
                 IF p # 0 THEN n = p
                 ELSE BasesPass(n, OddPart(n - 1, 0), <<2, 3, 5, 7, 11>>, 1)
         IN  Small(SmallDivisor(n, <<2, 3, 5, 7, 11, 13, 17, 19, 23>>, 1))

\* _gcd
RECURSIVE _gcd(_, _)
_gcd(a, b) == IF b = 0 THEN a ELSE _gcd(b, a % b)

\* the inner loop of _pollards_rho from x, y with constant c: the first d # 1
RECURSIVE RhoCycle(_, _, _, _)
RhoCycle(x, y, c, n) ==
    LET f(v) == (((v * v) % n) + c) % n
        Step(x1, y1) ==
            LET Found(d) == IF d = 1 THEN RhoCycle(x1, y1, c, n) ELSE d
            IN  Found(_gcd(IF x1 >= y1 THEN x1 - y1 ELSE y1 - x1, n))
    IN  Step(f(x), f(f(y)))

\* _pollards_rho: the divisors it can return, one for each draw of x in
\* randrange(2, n - 1) and c in randrange(1, n - 1) whose d is not n
_pollards_rho(n) ==
    IF n % 2 = 0 THEN {2}
    ELSE {RhoCycle(x, x, c, n) : x \in 2..(n - 2), c \in 1..(n - 2)} \ {n}

\* the lists _factor_recursive can leave in out
RECURSIVE _factor_recursive(_, _)
_factor_recursive(n, out) ==
    IF n = 1 THEN {out}
    ELSE IF _is_probable_prime(n) THEN {Append(out, n)}
    ELSE UNION {UNION {_factor_recursive(n \div d, o) : o \in _factor_recursive(d, out)} :
                d \in _pollards_rho(n)}

\* while n % 2 == 0: of an n that is not 0
RECURSIVE DivideOut(_, _, _)
DivideOut(n, f, res) ==
    IF n % f = 0 THEN DivideOut(n \div f, f, Append(res, f)) ELSE [n |-> n, res |-> res]

\* the loop over the odd f, with its break on a prime n below 1000000
RECURSIVE OddDivisors(_, _, _, _)
OddDivisors(n, f, res, lim) ==
    IF f * f <= n /\ f <= lim
    THEN LET Divided(r) ==
                 IF r.n > 1 /\ r.n < 1000000 /\ _is_probable_prime(r.n) THEN r
                 ELSE OddDivisors(r.n, f + 2, r.res, lim)
         IN  Divided(DivideOut(n, f, res))
    ELSE [n |-> n, res |-> res]

\* _trial_division from f = 3 on, entered with the n and res that the loop
\* `while n % 2 == 0` left
TrialOdd(r, lim) ==
    LET Rest(o) == IF o.n > 1 THEN Append(o.res, o.n) ELSE o.res
    IN  Rest(OddDivisors(r.n, 3, r.res, lim))

_trial_division(n, lim) == TrialOdd(DivideOut(n, 2, <<>>), lim)

RECURSIVE Product(_)
Product(q) == IF Len(q) = 0 THEN 1 ELSE Head(q) * Product(Tail(q))

\* res.sort()
SortAsc(q) ==
    LET Place(j) == Cardinality({k \in 1..Len(q) : q[k] < q[j] \/ (q[k] = q[j] /\ k <= j)})
    IN  [i \in 1..Len(q) |-> q[CHOOSE j \in 1..Len(q) : Place(j) = i]]

\* the lists _factor_internal can return
\* _factor_internal after td = _trial_division(n)
FactorRest(n, td) ==
    IF n \div Product(td) > 1
    THEN {SortAsc(o) : o \in _factor_recursive(n \div Product(td), td)}
    ELSE {SortAsc(td)}

_factor_internal(n) == FactorRest(n, _trial_division(n, TrialLimit))

\* str(n) of an int
IntStr(n) == IF n < 0 THEN <<45>> \o Str(-n) ELSE Str(n)

FactorResult(n, factors) == [n |-> n, factors |-> factors]

\* factor_integer(n, prefer_yafu=False) of an int n: the results it can return
factor_integer(n) ==
    {FactorResult(IntStr(n), [i \in 1..Len(res) |-> Str(res[i])]) : res \in _factor_internal(n)}

----------------------------------------------------------------------------
(* The functions of the tools called on their own: one call per behaviour *)

\* "A", "Z", "a", "m", "z", "!", "{", U+00E9
ShiftAlphabet == {65, 90, 97, 109, 122, 33, 123, 233}

\* t with each letter A-Z, a-z rotated forward by k within its own case: the
\* ciphertext a shift cipher with key k makes of t
ShiftEncode(t, k) ==
    Join([i \in 1..Len(t) |->
        IF IsUpper(t[i]) THEN ((t[i] - 65 + k) % 26) + 65
        ELSE IF IsLower(t[i]) THEN ((t[i] - 97 + k) % 26) + 97
        ELSE t[i]])

\* the call c returned or raised r, with no use of the score cache
Apply(c, r) ==
    /\ call' = c
    /\ ret' = r
    /\ UNCHANGED <<text, cache, hits, misses, log, pool>>

\* the decoding of rot_all and caesar_break for one shift k, applied to the
\* ciphertext of plain under k
ShiftDecode ==
    /\ ret.status = "idle"
    /\ \E plain \in Strings(ShiftAlphabet, MaxLen), k \in 0..25 :
          Apply([tool |-> "shift_decode", plain |-> plain, arg |-> ShiftEncode(plain, k), k |-> k],
                Returned("shift_decode", ShiftText(ShiftEncode(plain, k), k)))

\* longest text put through the rail fence, and most rails
MaxRailLen == 7
MaxRails == 4

\* the texts "", "a", "ab", ... "abcdefg..." and "key{}"
RailTexts == {[i \in 1..n |-> 96 + i] : n \in 0..MaxRailLen} \cup {<<107, 101, 121, 123, 125>>}

\* the row of the zig-zag with r rails that position i (from 0) is written on
ZigZagRow(i, r) ==
    IF (i % (2 * (r - 1))) < r THEN i % (2 * (r - 1)) ELSE (2 * (r - 1)) - (i % (2 * (r - 1)))

\* t written in a zig-zag over r rails and read row by row, top to bottom
RailEncode(t, r) ==
    LET n == Len(t)
        rank(i) == Cardinality({j \in 1..n :
                       \/ ZigZagRow(j - 1, r) < ZigZagRow(i - 1, r)
                       \/ (ZigZagRow(j - 1, r) = ZigZagRow(i - 1, r) /\ j < i)})
    IN  Join([p \in 1..n |-> t[CHOOSE i \in 1..n : rank(i) + 1 = p]])

\* rail_fence_decrypt on the encoding of plain with r rails
RailFenceDecrypt ==
    /\ ret.status = "idle"
    /\ \E plain \in RailTexts, r \in 2..MaxRails :
          Apply([tool |-> "rail_fence_decrypt", plain |-> plain, arg |-> RailEncode(plain, r),
                 rails |-> r],
                Returned("rail_fence_decrypt", rail_fence_decrypt(RailEncode(plain, r), r)))

\* rail_fence_break on the encoding of plain with r rails
RailFenceBreakEncoded ==
    /\ ret.status = "idle"
    /\ \E plain \in RailTexts, r \in 2..MaxRails, max_rails \in 2..MaxRails, top_k \in TopKs :
          Done([tool |-> "rail_fence_break", plain |-> plain, arg |-> RailEncode(plain, r),
                    rails |-> r, max_rails |-> max_rails, top_k |-> top_k],
                   rail_fence_break(St, RailEncode(plain, r), max_rails, top_k))

\* "", "TEST", "aa", "hello", "j!x", "e" with an acute accent, "a" U+0130
PlayfairTexts ==
    { <<>>, <<84, 69, 83, 84>>, <<97, 97>>, <<104, 101, 108, 108, 111>>, <<106, 33, 120>>,
      <<233>>, <<97, 304>> }

\* None, "", "test", "Key j"
KeyHints == {None, Some(<<>>), Some(<<116, 101, 115, 116>>), Some(<<75, 101, 121, 32, 106>>)}

PlayfairBreak ==
    /\ ret.status = "idle"
    /\ \E ciphertext \in PlayfairTexts, key_hint \in KeyHints, top_k \in TopKs :
          Done([tool |-> "playfair_break", arg |-> ciphertext, key_hint |-> key_hint,
                top_k |-> top_k],
               playfair_break(St, ciphertext, key_hint, top_k))

\* longest byte string given to hamming_distance
MaxBytes == 2

\* the bytes 0x00, 0x01, 0x02, 0xaa, 0xff
HammingBytes == {0, 1, 2, 170, 255}

HammingDistance ==
    /\ ret.status = "idle"
    /\ \E a \in Strings(HammingBytes, MaxBytes + 1), b \in Strings(HammingBytes, MaxBytes) :
          Apply([tool |-> "hamming_distance", a |-> a, b |-> b],
                IF hamming_distance(a, b) < 0 THEN Raised("hamming_distance", "ValueError")
                ELSE Returned("hamming_distance", hamming_distance(a, b)))

\* factor_integer on an int other than 0, on which the loop `while n % 2 == 0`
\* of _trial_division does not end
FactorInteger ==
    /\ ret.status = "idle"
    /\ \E n \in (-MaxN..MaxN) \ {0} :
          \E r \in factor_integer(n) :
              Apply([tool |-> "factor_integer", n |-> n], Returned("factor_integer", r))

InitPure ==
    /\ text = <<>>
    /\ call = NoCall
    /\ ret = Idle
    /\ cache = <<>>
    /\ hits = 0
    /\ misses = 0
    /\ log = <<>>
    /\ pool = <<>>

NextPure ==
    \/ ShiftDecode
    \/ RailFenceDecrypt
    \/ RailFenceBreakEncoded
    \/ PlayfairBreak
    \/ HammingDistance
    \/ FactorInteger

SpecPure == InitPure /\ [][NextPure]_vars

----------------------------------------------------------------------------
(* Properties of the functions, checked under SpecPure *)

\* C12: decoding with shift k the text that rotating every letter of t forward
\* by k within its own case gives returns t exactly, for every k in 0..25; the
\* decoder's output is as long as its input, and it leaves every character
\* that is not a letter, and the case of every letter, as they are
C12_ShiftInverse ==
    call.tool = "shift_decode" =>
        /\ ret.status = "returned"
        /\ ret.value = call.plain
        /\ Len(ret.value) = Len(call.arg)
        /\ \A i \in 1..Len(call.arg) :
              /\ ~(IsUpper(call.arg[i]) \/ IsLower(call.arg[i])) => ret.value[i] = call.arg[i]
              /\ IsUpper(call.arg[i]) <=> IsUpper(ret.value[i])
              /\ IsLower(call.arg[i]) <=> IsLower(ret.value[i])

\* a two-letter text of both cases came back from a shift that wraps around
C12_Witness ==
    /\ call.tool = "shift_decode"
    /\ call.k = 25
    /\ call.plain = <<90, 97>>
    /\ call.arg = <<89, 122>>
    /\ ret.value = <<90, 97>>

\* q is a rearrangement of s: the same characters, each as often
Rearranged(q, s) ==
    /\ Len(q) = Len(s)
    /\ \A x \in {s[i] : i \in 1..Len(s)} \cup {q[i] : i \in 1..Len(q)} :
          Cardinality({i \in 1..Len(q) : q[i] = x}) = Cardinality({i \in 1..Len(s) : s[i] = x})

\* rail_fence_decrypt returned the text whose encoding it was given
RailDecrypted ==
    call.tool = "rail_fence_decrypt" => ret.status = "returned" /\ ret.value = call.plain

\* C13: rail_fence_decrypt applied to the zig-zag encoding of t with r >= 2
\* rails returns t; rail_fence_break on that encoding with max_rails >= r and
\* top_k >= max_rails - 1 contains a candidate with key str(r) and plaintext
\* t, and every candidate plaintext is a rearrangement of the ciphertext
C13_RailFenceInverse ==
    /\ RailDecrypted
    /\ call.tool = "rail_fence_break" =>
          /\ ret.status = "returned"
          /\ \A i \in 1..Len(ret.value) : Rearranged(ret.value[i].plaintext, call.arg)
          /\ (call.max_rails >= call.rails /\ call.top_k >= call.max_rails - 1) =>
                \E i \in 1..Len(ret.value) :
                    /\ ret.value[i].key = Str(call.rails)
                    /\ ret.value[i].plaintext = call.plain

\* the same of the calls of rail_fence_break that return
C13_ReturnedRailFenceInverse ==
    /\ RailDecrypted
    /\ (call.tool = "rail_fence_break" /\ ret.status = "returned") =>
          /\ \A i \in 1..Len(ret.value) : Rearranged(ret.value[i].plaintext, call.arg)
          /\ (call.max_rails >= call.rails /\ call.top_k >= call.max_rails - 1) =>
                \E i \in 1..Len(ret.value) :
                    /\ ret.value[i].key = Str(call.rails)
                    /\ ret.value[i].plaintext = call.plain

\* seven characters came back in order from three rails
C13_DecryptReached ==
    /\ call.tool = "rail_fence_decrypt"
    /\ call.rails = 3
    /\ call.arg = <<97, 101, 98, 100, 102, 99, 103>>
    /\ ret.value = <<97, 98, 99, 100, 101, 102, 103>>

\* C14: for every ciphertext, key_hint and top_k, playfair_break returns a
\* list of exactly one BreakResult and does not raise; with key_hint None or
\* empty that result has plaintext "", key None and confidence 0
C14_PlayfairOneResult ==
    call.tool = "playfair_break" =>
        /\ ret.status = "returned"
        /\ Len(ret.value) = 1
        /\ (~call.key_hint.ok \/ call.key_hint.text = <<>>) =>
              /\ ret.value[1].plaintext = <<>>
              /\ ret.value[1].key = None
              /\ ret.value[1].confidence = Score0

\* the same of the calls that return
C14_ReturnedPlayfairOneResult ==
    (call.tool = "playfair_break" /\ ret.status = "returned") =>
        /\ Len(ret.value) = 1
        /\ (~call.key_hint.ok \/ call.key_hint.text = <<>>) =>
              /\ ret.value[1].plaintext = <<>>
              /\ ret.value[1].key = None
              /\ ret.value[1].confidence = Score0

\* bit j of the byte x
Bit(x, j) == (x \div (2 ^ j)) % 2

\* the bit positions in which the first n bytes of a and of b differ
DifferingBits(a, b, n) == {<<i, j>> \in (1..n) \X (0..7) : Bit(a[i], j) # Bit(b[i], j)}

\* C15: on byte strings of different lengths hamming_distance does not raise
\* and returns the number of differing bits in the first min(len(a), len(b))
\* bytes
C15_ComparesCommonPrefix ==
    (call.tool = "hamming_distance" /\ Len(call.a) # Len(call.b)) =>
        /\ ret.status = "returned"
        /\ ret.value = Cardinality(DifferingBits(call.a, call.b, Min(Len(call.a), Len(call.b))))

\* C16: on byte strings of equal length hamming_distance returns the number
\* of bit positions in which they differ; it is 0 for a = b and only then,
\* and the same for (b, a)
C16_CountsDifferingBits ==
    (call.tool = "hamming_distance" /\ Len(call.a) = Len(call.b)) =>
        /\ ret.status = "returned"
        /\ ret.value = Cardinality(DifferingBits(call.a, call.b, Len(call.a)))
        /\ ret.value = 0 <=> call.a = call.b
        /\ hamming_distance(call.b, call.a) = ret.value

\* 0xff 0x00 against 0x00 0xaa: twelve bits differ
C16_Witness ==
    /\ call.tool = "hamming_distance"
    /\ call.a = <<255, 0>>
    /\ call.b = <<0, 170>>
    /\ ret.status = "returned"
    /\ ret.value = 12

\* the integer a decimal string, with or without a sign, stands for
RECURSIVE DigitsValue(_)
DigitsValue(s) ==
    IF Len(s) = 0 THEN 0 ELSE (10 * DigitsValue(SubSeq(s, 1, Len(s) - 1))) + (s[Len(s)] - 48)

DecimalValue(s) == IF Len(s) > 0 /\ s[1] = 45 THEN -DigitsValue(Tail(s)) ELSE DigitsValue(s)

IsPrime(p) == p > 1 /\ \A d \in 2..(p - 1) : p % d # 0

Abs(n) == IF n < 0 THEN -n ELSE n

\* the factors of a FactorResult as integers
FactorsOf(r) == [i \in 1..Len(r.factors) |-> DecimalValue(r.factors[i])]

\* the product of the factors is |n| and n is given back in decimal
FactorsMultiplyTo(n, r) == Product(FactorsOf(r)) = Abs(n) /\ DecimalValue(r.n) = n

\* C19: for every n with |n| > 1, positive or negative, the product of the
\* factors factor_integer returns is |n| and FactorResult.n is the decimal
\* string of n; factor_integer(1) is the empty list; a prime p gives [p]
C19_ProductIsAbsoluteValue ==
    call.tool = "factor_integer" =>
        /\ ret.status = "returned"
        /\ Abs(call.n) > 1 => FactorsMultiplyTo(call.n, ret.value)
        /\ call.n = 1 => ret.value.factors = <<>>
        /\ IsPrime(call.n) => FactorsOf(ret.value) = <<call.n>>

\* the same of the integers n >= 1
C19_PositiveProductIsN ==
    (call.tool = "factor_integer" /\ call.n >= 1) =>
        /\ ret.status = "returned"
        /\ call.n > 1 => FactorsMultiplyTo(call.n, ret.value)
        /\ call.n = 1 => ret.value.factors = <<>>
        /\ IsPrime(call.n) => FactorsOf(ret.value) = <<call.n>>

\* C20: for every n > 1 the factors are in ascending order and each is a
\* prime, unless the list is exactly [n]: a composite that trial division
\* leaves is split
C20_AscendingPrimes ==
    (call.tool = "factor_integer" /\ call.n > 1) =>
        LET f == FactorsOf(ret.value)
        IN  /\ ret.status = "returned"
            /\ \A i \in 1..(Len(f) - 1) : f[i] <= f[i + 1]
            /\ f # <<call.n>> => \A i \in 1..Len(f) : IsPrime(f[i])

\* the factors are in ascending order, for every n > 1
C20_Ascending ==
    (call.tool = "factor_integer" /\ call.n > 1) =>
        LET f == FactorsOf(ret.value)
        IN  \A i \in 1..(Len(f) - 1) : f[i] <= f[i + 1]

----------------------------------------------------------------------------
(* tools/number.py: factor_integer(n, prefer_yafu=False) step by step, one
   step per iteration of the loop `while n % 2 == 0` of _trial_division *)

\* the length from which the list res of the loop is no longer told apart:
\* no n other than 0 within -MaxN..MaxN has that many factors 2
MaxTwos == 10

FactorIdle == [pc |-> "idle", n |-> 0, res |-> <<>>]

\* factor_integer(n, prefer_yafu=False) is called: nn = n, _factor_internal
\* calls _trial_division, which starts with res = []
FactorCall ==
    /\ pool = FactorIdle
    /\ ret.status = "idle"
    /\ \E n \in -MaxN..MaxN :
          /\ call' = [tool |-> "factor_integer", n |-> n]
          /\ pool' = [pc |-> "halve", n |-> n, res |-> <<>>]
    /\ UNCHANGED <<text, ret, cache, hits, misses, log>>

\* one iteration of `while n % 2 == 0: res.append(2); n //= 2`
HalveStep ==
    /\ pool.pc = "halve"
    /\ pool.n % 2 = 0
    /\ pool' = [pc |-> "halve", n |-> pool.n \div 2,
                res |-> IF Len(pool.res) < MaxTwos THEN Append(pool.res, 2) ELSE pool.res]
    /\ UNCHANGED <<text, call, ret, cache, hits, misses, log>>

\* the loop `while n % 2 == 0` is left; the rest of _trial_division runs
TrialRest ==
    /\ pool.pc = "halve"
    /\ pool.n % 2 # 0
    /\ pool' = [pc |-> "internal", n |-> pool.n,
                res |-> TrialOdd([n |-> pool.n, res |-> pool.res], TrialLimit)]
    /\ UNCHANGED <<text, call, ret, cache, hits, misses, log>>

\* the rest of _factor_internal, and factor_integer returns its FactorResult
FactorReturn ==
    /\ pool.pc = "internal"
    /\ \E res \in FactorRest(call.n, pool.res) :
          ret' = Returned("factor_integer",
                          FactorResult(IntStr(call.n), [i \in 1..Len(res) |-> Str(res[i])]))
    /\ pool' = [pc |-> "returned", n |-> pool.n, res |-> pool.res]
    /\ UNCHANGED <<text, call, cache, hits, misses, log>>

InitFactor ==
    /\ text = <<>>
    /\ call = NoCall
    /\ ret = Idle
    /\ cache = <<>>
    /\ hits = 0
    /\ misses = 0
    /\ log = <<>>
    /\ pool = FactorIdle

NextFactor ==
    \/ FactorCall
    \/ HalveStep
    \/ TrialRest
    \/ FactorReturn

\* a call that has started keeps running: the interpreter takes the next step
\* of the loop or of the function whenever there is one
SpecFactor ==
    /\ InitFactor
    /\ [][NextFactor]_vars
    /\ WF_vars(HalveStep)
    /\ WF_vars(TrialRest)
    /\ WF_vars(FactorReturn)

\* C21: factor_integer(n, prefer_yafu=False) terminates for every integer n,
\* 0 and the negative numbers included: every call eventually returns, and
\* what it returns has n in decimal ("0" for 0)
C21_FactorIntegerTerminates ==
    (call.tool = "factor_integer") ~>
        (ret.status = "returned" /\ ret.value.n = IntStr(call.n))

\* every call on an n other than 0 eventually returns, with n in decimal
C21_NonZeroTerminates ==
    (call.tool = "factor_integer" /\ call.n # 0) ~>
        (ret.status = "returned" /\ ret.value.n = IntStr(call.n))

\* the step by step run returns what factor_integer as a function gives
C21_StepsReturnFactorInteger ==
    ret.status = "returned" => ret.value \in factor_integer(call.n)

\* on 0 the loop `while n % 2 == 0` is never left
C21_ZeroStaysInLoop ==
    (call.tool = "factor_integer" /\ call.n = 0) => (pool.pc = "halve" /\ pool.n = 0)

\* a call on a negative number has returned
C21_NegativeReturned ==
    call.tool = "factor_integer" /\ call.n < 0 /\ ret.status = "returned"

\* the call on 0 is in its loop with a list that has already grown
C21_ZeroLooping ==
    call.tool = "factor_integer" /\ call.n = 0 /\ Len(pool.res) = MaxTwos

----------------------------------------------------------------------------
(* Malformed payloads of the XOR tools *)

\* an even number of hexadecimal digits and nothing else
WellFormedHex(s) == Len(s) % 2 = 0 /\ \A i \in 1..Len(s) : HexVal(s[i]) >= 0

\* the number of '=' at the end of s
RECURSIVE TrailingPads(_)
TrailingPads(s) ==
    IF Len(s) > 0 /\ s[Len(s)] = 61 THEN 1 + TrailingPads(SubSeq(s, 1, Len(s) - 1)) ELSE 0

\* groups of four characters of the standard alphabet, the last group ending
\* in at most two '='
WellFormedB64(s) ==
    /\ Len(s) % 4 = 0
    /\ TrailingPads(s) <= 2
    /\ \A i \in 1..(Len(s) - TrailingPads(s)) : B64Val(s[i]) >= 0

Malformed(s, encoding) ==
    \/ encoding = "hex" /\ ~WellFormedHex(s)
    \/ encoding = "b64" /\ ~WellFormedB64(s)

XorCall == call.tool \in {"xor_single_break", "xor_repeating_break"}

\* the call raised the decode error and no text was scored
DecodeErrorFirst == ret.status = "raised" /\ ret.value = "ValueError" /\ hits + misses = 0

\* C22: xor_single_break and xor_repeating_break on a payload that is not
\* well-formed for its encoding (hex: odd length or a character that is no
\* hex digit; b64: a character outside the alphabet or invalid padding) raise
\* a decode error before any candidate is scored
C22_MalformedPayloadRaises ==
    (XorCall /\ Malformed(call.arg, call.encoding)) => DecodeErrorFirst

\* on the hex payloads of the model the decode error is raised
C22_MalformedHexRaises ==
    (XorCall /\ call.encoding = "hex" /\ ~WellFormedHex(call.arg)) => DecodeErrorFirst

\* a base64 payload without '=' whose characters of the alphabet do not make
\* full groups of four raises
C22_TruncatedB64Raises ==
    (XorCall /\ call.encoding = "b64"
        /\ Cardinality({i \in 1..Len(call.arg) : B64Val(call.arg[i]) >= 0}) % 4 # 0
        /\ \A i \in 1..Len(call.arg) : call.arg[i] # 61) => DecodeErrorFirst

\* a tool went on with the empty bytes of a malformed base64 payload
C22_EmptyBytesScored ==
    /\ XorCall
    /\ Malformed(call.arg, call.encoding)
    /\ ret.status = "returned"
    /\ _parse_data(call.arg, call.encoding).bytes = <<>>

----------------------------------------------------------------------------
(* tools/number.py _factor_with_yafu and tools/sagemath.py: the bridges to the
   external solvers. What the external process does is an input: the binary
   is absent, the run times out, the run raises, or the run ends with a text.
   A text is its lines; a line is its kind (how it starts) and its tokens. *)

MaxLines == 2
MaxToks == 2

\* "2", "3", "6", "x"
YafuTokens == {<<50>>, <<51>>, <<54>>, <<120>>}

\* "ans = t1 * t2", "P1 = t1 t2"/"PRP.. t1 t2", "fac: t1 t2", any other line
YafuKinds == {"ans", "P", "fac", "other"}

YafuLines == [kind : YafuKinds, toks : Strings(YafuTokens, MaxToks)]

Absent == [kind |-> "absent", lines |-> <<>>]
TimedOut == [kind |-> "timeout", lines |-> <<>>]
Crashed == [kind |-> "crash", lines |-> <<>>]
Output(lines) == [kind |-> "output", lines |-> lines]

YafuOutcomes == {Absent, TimedOut, Crashed} \cup {Output(l) : l \in Strings(YafuLines, MaxLines)}

\* int(tok) succeeds on the tokens made of decimal digits
IsDecimal(tok) == Len(tok) > 0 /\ \A i \in 1..Len(tok) : tok[i] >= 48 /\ tok[i] <= 57

RECURSIVE TokValue(_)
TokValue(tok) ==
    IF Len(tok) = 0 THEN 0
    ELSE (10 * TokValue(SubSeq(tok, 1, Len(tok) - 1))) + (tok[Len(tok)] - 48)

NoList == [ok |-> FALSE, vals |-> <<>>]

\* _parse_ans_line: the first line "ans = ..." decides
RECURSIVE _parse_ans_line(_, _)
_parse_ans_line(lines, i) ==
    IF i > Len(lines) THEN NoList
    ELSE IF lines[i].kind = "ans"
    THEN IF \E j \in 1..Len(lines[i].toks) : ~IsDecimal(lines[i].toks[j]) THEN NoList
         ELSE IF Len(lines[i].toks) = 0 THEN NoList
         ELSE [ok |-> TRUE, vals |-> [j \in 1..Len(lines[i].toks) |-> TokValue(lines[i].toks[j])]]
    ELSE _parse_ans_line(lines, i + 1)

\* the tokens of a line that int() accepts, in order
RECURSIVE IntsOf(_)
IntsOf(toks) ==
    IF Len(toks) = 0 THEN <<>>
    ELSE IF IsDecimal(Head(toks)) THEN <<TokValue(Head(toks))>> \o IntsOf(Tail(toks))
    ELSE IntsOf(Tail(toks))

\* _parse_fac_lines: the last group of integers on "P"/"PRP" and "fac:" lines
RECURSIVE _parse_fac_lines(_, _, _, _)
_parse_fac_lines(lines, i, last_group, current) ==
    IF i > Len(lines)
    THEN IF Len(current) > 0 THEN [ok |-> TRUE, vals |-> current]
         ELSE IF Len(last_group) > 0 THEN [ok |-> TRUE, vals |-> last_group]
         ELSE NoList
    ELSE IF lines[i].kind = "P"
    THEN _parse_fac_lines(lines, i + 1, last_group, current \o IntsOf(lines[i].toks))
    ELSE IF lines[i].kind = "fac"
    THEN _parse_fac_lines(lines, i + 1, IF Len(current) > 0 THEN current ELSE last_group,
                          IntsOf(lines[i].toks))
    ELSE _parse_fac_lines(lines, i + 1, IF Len(current) > 0 THEN current ELSE last_group, <<>>)

\* a list that does not multiply to n, taken as it is
ProductUnchecked(n, factors) == factors.ok

\* `if factors:` and prod == n
ProductChecked(n, factors) == factors.ok /\ Len(factors.vals) > 0 /\ Product(factors.vals) = n

\* _factor_with_yafu(n) when the external process does what outcome says:
\* None (NoList) or the sorted factors
_factor_with_yafu(n, outcome) ==
    IF outcome.kind # "output" THEN NoList
    ELSE LET First(ans, fac) ==
                 IF ProductChecked(n, ans) THEN [ok |-> TRUE, vals |-> SortAsc(ans.vals)]
                 ELSE IF ProductChecked(n, fac) THEN [ok |-> TRUE, vals |-> SortAsc(fac.vals)]
                 ELSE NoList
         IN  First(_parse_ans_line(outcome.lines, 1),
                   _parse_fac_lines(outcome.lines, 1, <<>>, <<>>))

\* factor_integer(n, prefer_yafu=True) of an int n other than 0
factor_integer_prefer_yafu(n, outcome) ==
    LET Preferred(yf) ==
            IF yf.ok /\ Len(yf.vals) > 0
            THEN {FactorResult(IntStr(n), [i \in 1..Len(yf.vals) |-> Str(yf.vals[i])])}
            ELSE factor_integer(n)
    IN  Preferred(_factor_with_yafu(n, outcome))

----------------------------------------------------------------------------
(* tools/sagemath.py *)

\* "RESULT:", "TIME:", "ERROR:", "FACTOR:", "REMAINING:", "NO_FACTOR", other
SageTags == {"RESULT", "TIME", "ERROR", "FACTOR", "REMAINING", "NO_FACTOR", "OTHER"}

\* what follows the colon: " 10", "", " boom "
SageRests == {<<32, 49, 48>>, <<>>, <<32, 98, 111, 111, 109, 32>>}

SageLines == [tag : SageTags, rest : SageRests]

SageOutcomes == {Absent, TimedOut, Crashed} \cup {Output(l) : l \in Strings(SageLines, MaxLines)}

\* str.strip() of spaces
RECURSIVE Strip(_)
Strip(s) ==
    IF Len(s) > 0 /\ s[1] = 32 THEN Strip(Tail(s))
    ELSE IF Len(s) > 0 /\ s[Len(s)] = 32 THEN Strip(SubSeq(s, 1, Len(s) - 1))
    ELSE s

\* _run_sage: None ([ok |-> FALSE]) without the binary, on a timeout and on
\* any exception, else the stdout of the run
_run_sage(outcome) ==
    IF outcome.kind = "output" THEN [ok |-> TRUE, lines |-> outcome.lines]
    ELSE [ok |-> FALSE, lines |-> <<>>]

\* "SageMath not installed. Install from https://www.sagemath.org/"
NotInstalledLong == <<83, 97, 103, 101, 77, 97, 116, 104, 32, 110, 111, 116>>
\* "SageMath not installed"
NotInstalled == <<83, 97, 103, 101, 77, 97, 116, 104>>
\* "Invalid number format (use decimal or 0x... for hex)"
InvalidNumber == <<73, 110, 118, 97, 108, 105, 100>>
\* "SageMath execution failed or timeout (> {timeout}s)"
ExecutionFailed == <<102, 97, 105, 108, 101, 100>>
\* "No factor found with ECM"
NoFactorFound == <<78, 111, 32, 102, 97, 99, 116, 111, 114>>

\* the numbers given to the tools: "5", "z"
SageNumbers == {<<53>>, <<122>>}

\* the loop over output.splitlines() of discrete_log
RECURSIVE DiscreteLogLines(_, _, _)
DiscreteLogLines(lines, i, result) ==
    IF i > Len(lines) THEN result
    ELSE IF lines[i].tag = "RESULT"
    THEN DiscreteLogLines(lines, i + 1,
             [result EXCEPT !.found = TRUE, !.x = Some(Strip(lines[i].rest))])
    ELSE IF lines[i].tag = "TIME"
    THEN DiscreteLogLines(lines, i + 1,
             IF IsDecimal(Strip(lines[i].rest))
             THEN [result EXCEPT !.time = Some(Strip(lines[i].rest))] ELSE result)
    ELSE IF lines[i].tag = "ERROR"
    THEN DiscreteLogLines(lines, i + 1, [result EXCEPT !.error = Some(Strip(lines[i].rest))])
    ELSE DiscreteLogLines(lines, i + 1, result)

\* discrete_log(g, p, base=None, method="auto") as a dict; HAS_SAGEMATH is
\* false when the binary is absent
discrete_log(g, outcome) ==
    IF outcome.kind = "absent"
    THEN [found |-> FALSE, x |-> None, method |-> "auto", error |-> Some(NotInstalledLong)]
    ELSE IF ~IsDecimal(g)
    THEN [found |-> FALSE, x |-> None, method |-> "auto", error |-> Some(InvalidNumber)]
    ELSE IF ~_run_sage(outcome).ok
    THEN [found |-> FALSE, x |-> None, method |-> "auto", error |-> Some(ExecutionFailed)]
    ELSE DiscreteLogLines(_run_sage(outcome).lines, 1,
             [found |-> FALSE, x |-> None, method |-> "auto", time |-> None, error |-> None])

\* the loop over output.splitlines() of elliptic_curve_factor
RECURSIVE EcmLines(_, _, _)
EcmLines(lines, i, result) ==
    IF i > Len(lines) THEN result
    ELSE IF lines[i].tag = "FACTOR"
    THEN EcmLines(lines, i + 1,
             [result EXCEPT !.found = TRUE, !.factor = Some(Strip(lines[i].rest))])
    ELSE IF lines[i].tag = "REMAINING"
    THEN EcmLines(lines, i + 1, [result EXCEPT !.remaining = Some(Strip(lines[i].rest))])
    ELSE IF lines[i].tag = "ERROR"
    THEN EcmLines(lines, i + 1, [result EXCEPT !.error = Some(Strip(lines[i].rest))])
    ELSE IF lines[i].tag = "NO_FACTOR"
    THEN EcmLines(lines, i + 1, [result EXCEPT !.error = Some(NoFactorFound)])
    ELSE EcmLines(lines, i + 1, result)

elliptic_curve_factor(n, outcome) ==
    IF outcome.kind = "absent"
    THEN [found |-> FALSE, factor |-> None, error |-> Some(NotInstalled)]
    ELSE IF ~IsDecimal(n)
    THEN [found |-> FALSE, factor |-> None, error |-> Some(InvalidNumber)]
    ELSE IF ~_run_sage(outcome).ok
    THEN [found |-> FALSE, factor |-> None, error |-> Some(ExecutionFailed)]
    ELSE EcmLines(_run_sage(outcome).lines, 1,
             [found |-> FALSE, factor |-> None, remaining |-> None, error |-> None])

----------------------------------------------------------------------------
(* The bridges called on their own: one call per behaviour *)

\* the integers given to factor_integer(n, prefer_yafu=True)
YafuNs == {1, 6, 12, 36}

FactorIntegerPreferYafu ==
    /\ ret.status = "idle"
    /\ \E n \in YafuNs, outcome \in YafuOutcomes :
          \E r \in factor_integer_prefer_yafu(n, outcome) :
              Apply([tool |-> "factor_integer", n |-> n, outcome |-> outcome],
                    Returned("factor_integer", r))

DiscreteLog ==
    /\ ret.status = "idle"
    /\ \E g \in SageNumbers, outcome \in SageOutcomes :
          Apply([tool |-> "discrete_log", n |-> g, outcome |-> outcome],
                Returned("discrete_log", discrete_log(g, outcome)))

EllipticCurveFactor ==
    /\ ret.status = "idle"
    /\ \E n \in SageNumbers, outcome \in SageOutcomes :
          Apply([tool |-> "elliptic_curve_factor", n |-> n, outcome |-> outcome],
                Returned("elliptic_curve_factor", elliptic_curve_factor(n, outcome)))

NextBridge ==
    \/ FactorIntegerPreferYafu
    \/ DiscreteLog
    \/ EllipticCurveFactor

SpecBridge == InitPure /\ [][NextBridge]_vars

\* the external solver gave no result: no binary, a timeout, a crash, no
\* output, or only lines that are no part of the protocol
SolverFailed(outcome) ==
    \/ outcome.kind # "output"
    \/ \A i \in 1..Len(outcome.lines) : outcome.lines[i].tag = "OTHER"

SageCall == call.tool \in {"discrete_log", "elliptic_curve_factor"}

\* C23: whatever the external solver process does, the bridge returns with
\* the failure as a value: factor_integer(n, prefer_yafu=True) returns the
\* internal factorization, or an external list whose product is n, and a
\* SageMath function whose solver failed returns found = False with a
\* non-empty error string
C23_SolverFailureIsAValue ==
    /\ call.tool = "factor_integer" =>
          /\ ret.status = "returned"
          /\ ret.value \in factor_integer(call.n) \/ FactorsMultiplyTo(call.n, ret.value)
          /\ _factor_with_yafu(call.n, call.outcome) = NoList =>
                ret.value \in factor_integer(call.n)
    /\ (SageCall /\ SolverFailed(call.outcome)) =>
          /\ ret.status = "returned"
          /\ ret.value.found = FALSE
          /\ ret.value.error.ok
          /\ Len(ret.value.error.text) > 0

\* the part of C23 on factor_integer(n, prefer_yafu=True)
C23_YafuFallsBack ==
    call.tool = "factor_integer" =>
        /\ ret.status = "returned"
        /\ ret.value \in factor_integer(call.n) \/ FactorsMultiplyTo(call.n, ret.value)
        /\ _factor_with_yafu(call.n, call.outcome) = NoList =>
              ret.value \in factor_integer(call.n)

\* a SageMath function always returns a dict with found and error, and with
\* a reason when the binary is absent, the run timed out or raised
C23_SageReturnsDict ==
    SageCall =>
        /\ ret.status = "returned"
        /\ ret.value.found \in BOOLEAN
        /\ call.outcome.kind # "output" =>
              ~ret.value.found /\ ret.value.error.ok /\ Len(ret.value.error.text) > 0

\* an external list that is not the internal factorization was returned
C23_ExternalListReturned ==
    /\ call.tool = "factor_integer"
    /\ ret.status = "returned"
    /\ ret.value \notin factor_integer(call.n)

\* an external list with the wrong product was dropped
C23_WrongProductDropped ==
    /\ call.tool = "factor_integer"
    /\ call.outcome.kind = "output"
    /\ _parse_ans_line(call.outcome.lines, 1).ok
    /\ Product(_parse_ans_line(call.outcome.lines, 1).vals) # call.n
    /\ ret.value \in factor_integer(call.n)

\* a SageMath function returned a failure without a reason
C23_FailureWithoutReason ==
    /\ SageCall
    /\ SolverFailed(call.outcome)
    /\ ret.status = "returned"
    /\ ~ret.value.found
    /\ ~ret.value.error.ok

----------------------------------------------------------------------------
(* vigenere_break: the columns and the key cursor *)

\* the value of the key cursor ci of the final decoding when it reaches s[j]:
\* the number of alphabetic characters before position j
KeyCursor(s, j) == Cardinality({m \in 1..(j - 1) : IsAlpha(s[m])})

\* the characters the final decoding decrypts with key character i of a key
\* of length klen, in text order
RECURSIVE DecryptedWith(_, _, _, _)
DecryptedWith(s, klen, i, j) ==
    IF j > Len(s) THEN <<>>
    ELSE IF IsAlpha(s[j]) /\ KeyCursor(s, j) % klen = i
         THEN <<s[j]>> \o DecryptedWith(s, klen, i, j + 1)
         ELSE DecryptedWith(s, klen, i, j + 1)

\* every returned key has a length in 2..max_key_len, no length twice
KeyLengthsOnce(results, max_key_len) ==
    /\ \A i \in 1..Len(results) : Len(results[i].key) \in 2..max_key_len
    /\ \A i, j \in 1..Len(results) : Len(results[i].key) = Len(results[j].key) => i = j

\* C24: in vigenere_break, for every key length L in 2..max_key_len and every
\* i < L, the column brute-forced for key character i holds exactly the
\* alphabetic characters the final decoding decrypts with key character i
\* (the j-th alphabetic character is in column j mod L); every returned key
\* has a length in 2..max_key_len and each length appears at most once
C24_ColumnsFollowKeyCursor ==
    call.tool = "vigenere_break" =>
        /\ \A klen \in 2..call.bound : \A i \in 0..(klen - 1) :
              VigColumn(call.arg, klen, i, 0) = DecryptedWith(call.arg, klen, i, 1)
        /\ ret.status = "returned" => KeyLengthsOnce(ret.value, call.bound)

\* no character other than a letter stands before a letter
LettersFirst(s) == \A j \in 1..Len(s) : IsAlpha(s[j]) => KeyCursor(s, j) = j - 1

\* on a text whose letters all come first the columns are those of the key
\* cursor, and the returned keys have the lengths 2..max_key_len, each once
C24_LettersFirstColumns ==
    call.tool = "vigenere_break" =>
        /\ LettersFirst(call.arg) =>
              \A klen \in 2..call.bound : \A i \in 0..(klen - 1) :
                  VigColumn(call.arg, klen, i, 0) = DecryptedWith(call.arg, klen, i, 1)
        /\ ret.status = "returned" => KeyLengthsOnce(ret.value, call.bound)

\* a letter after a character that is no letter was put in another column
\* than the one of the key character that decrypts it
C24_ColumnOfAnotherKeyCharacter ==
    /\ call.tool = "vigenere_break"
    /\ ret.status = "returned"
    /\ \E klen \in 2..call.bound : \E i \in 0..(klen - 1) :
          VigColumn(call.arg, klen, i, 0) # DecryptedWith(call.arg, klen, i, 1)

----------------------------------------------------------------------------
(* english_score: the combination of the letter and the bigram score *)

\* a non-empty text without a marker match that passes the printable test
PlainScored(s) == Len(s) > 0 /\ ~FlagSearch(s) /\ 10 * CountPrintable(s) >= 7 * Len(s)

\* the bigram score is above 1: B / (50 * c) > 1
BigramAboveOne(s) == BigramNum(s) > 50 * Cardinality(BigramHits(s))

\* clamp01(0.7 * L + 0.3 * B) with the bigram score B clamped to [0,1] first
ClampedCombination(s) ==
    CombineScore(NormalizedLetter(s), Len(s),
                 Min(BigramNum(s), 50 * Cardinality(BigramHits(s))),
                 Cardinality(BigramHits(s)))

\* C25: for every non-empty text without a marker match that passes the
\* printable test, english_score is clamp01(0.7 * L + 0.3 * B) with L the
\* normalized letter score and B the bigram score clamped to [0,1] before the
\* combination; no other rule changes the result
C25_ClampedCombination ==
    (call.tool = "english_score" /\ PlainScored(call.arg)) =>
        ret.value = ClampedCombination(call.arg)

\* the value is the clamped combination when at least half of the characters
\* are alphabetic and the bigram score is at most 1
C25_CombinationOfSmallBigram ==
    (call.tool = "english_score" /\ PlainScored(call.arg)
        /\ 2 * CountAlpha(call.arg) >= Len(call.arg) /\ ~BigramAboveOne(call.arg)) =>
        ret.value = ClampedCombination(call.arg)

\* a bigram score above 1 entered the combination and raised the result
C25_BigramAboveOneCounted ==
    /\ call.tool = "english_score"
    /\ PlainScored(call.arg)
    /\ BigramAboveOne(call.arg)
    /\ ScoreLt(ClampedCombination(call.arg), ret.value)

\* a text with fewer than half alphabetic characters scored 0 although the
\* combination is above 0
C25_FewLettersRejected ==
    /\ call.tool = "english_score"
    /\ PlainScored(call.arg)
    /\ 2 * CountAlpha(call.arg) < Len(call.arg)
    /\ ret.value = Score0
    /\ ScoreLt(Score0, ClampedCombination(call.arg))

----------------------------------------------------------------------------
(* The score cache under the worker threads of xor_single_break *)

\* the cache is within its capacity and every entry holds the scorer's value
\* of its input
CacheSound(c) ==
    /\ Len(c) <= maxsize
    /\ \A i \in 1..Len(c) : c[i][2] = english_score(c[i][1])

\* the english_score calls that ended in this step returned the scorer's
\* value of their text
EndedCallsAgree ==
    (ret'.status = "running" /\ ret.status = "running") =>
        \A d \in pool'.done \ pool.done : d.score = english_score(XorText(d.k))

\* C26: when the worker threads of xor_single_break call english_score at the
\* same time, under every interleaving each call returns the value a
\* sequential evaluation gives for its input, the cache never holds more
\* entries than its capacity, and no entry maps an input to another value
\* than the scorer's
C26_ConcurrentCallsAgree == [][CacheSound(cache') /\ EndedCallsAgree]_vars

\* a worker has missed on a text that another worker stored while the first
\* was still computing, in a full cache
C26_RacingMisses ==
    /\ ret.status = "running"
    /\ Len(cache) = maxsize
    /\ \E t \in pool.running : t.phase = "compute" /\ XorText(t.k) \in CacheKeys(cache)

----------------------------------------------------------------------------
(* affine_break: the keys and the inverse *)

\* the encryption x -> (a * x + b) mod 26 within each case
AffineEncode(s, a, b) ==
    Join([i \in 1..Len(s) |->
        IF IsUpper(s[i]) THEN ((a * (s[i] - 65) + b) % 26) + 65
        ELSE IF IsLower(s[i]) THEN ((a * (s[i] - 97) + b) % 26) + 97
        ELSE s[i]])

\* the keys (a, b) with a in 1..25 coprime to 26 and b in 0..25
AffineKeys == {<<a, b>> : a \in {x \in 1..25 : Gcd(x, 26) = 1}, b \in 0..25}

\* the candidate is reported under one key "a=<a>,b=<b>" of AffineKeys and its
\* plaintext encrypts to the ciphertext s under that key
InvertsAffine(c, s) ==
    \E k \in AffineKeys : c.key = AffineKey(k[1], k[2]) /\ AffineEncode(c.plaintext, k[1], k[2]) = s

\* C27: affine_break evaluates exactly the 312 keys (a, b), a in 1..25
\* coprime to 26 and b in 0..25, each once, reported as "a=<a>,b=<b>"; every
\* candidate plaintext is the exact inverse of x -> (a * x + b) mod 26 within
\* each case, other characters unchanged; no candidate has another a
C27_AffineKeysAndInverse ==
    call.tool = "affine_break" =>
        /\ hits + misses = 312
        /\ ret.status = "returned"
        /\ \A i \in 1..Len(ret.value) : InvertsAffine(ret.value[i], call.arg)
        /\ \A i, j \in 1..Len(ret.value) : ret.value[i].key = ret.value[j].key => i = j
        /\ call.top_k >= 312 =>
              {ret.value[i].key : i \in 1..Len(ret.value)} =
                  {AffineKey(k[1], k[2]) : k \in AffineKeys}

\* whenever affine_break returns, it has scored 312 candidates and those
\* returned are inverses under distinct keys of AffineKeys, all 312 for a
\* top_k of at least 312
C27_ReturnedAffineKeysAndInverse ==
    (call.tool = "affine_break" /\ ret.status = "returned") =>
        /\ hits + misses = 312
        /\ Cardinality(AffineKeys) = 312
        /\ \A i \in 1..Len(ret.value) : InvertsAffine(ret.value[i], call.arg)
        /\ \A i, j \in 1..Len(ret.value) : ret.value[i].key = ret.value[j].key => i = j
        /\ call.top_k >= 312 =>
              {ret.value[i].key : i \in 1..Len(ret.value)} =
                  {AffineKey(k[1], k[2]) : k \in AffineKeys}

\* affine_break stopped at a candidate with a marker before the last key
C27_StoppedBeforeLastKey ==
    /\ call.tool = "affine_break"
    /\ ret.status = "raised"
    /\ hits + misses < 312

\* affine_break returned all 312 candidates of a text with letters of both cases
C27_AllKeysReturned ==
    /\ call.tool = "affine_break"
    /\ ret.status = "returned"
    /\ Len(ret.value) = 312
    /\ \E i \in 1..Len(call.arg) : IsUpper(call.arg[i])
    /\ \E i \in 1..Len(call.arg) : IsLower(call.arg[i])

----------------------------------------------------------------------------
(* Columnar transposition called on its own: one call per behaviour *)

MaxColLen == 5
MaxCols == 4

\* the texts "", "a", "ab", ... "abcde..", "aab" and "key{}"
ColumnarTexts ==
    {[i \in 1..n |-> 96 + i] : n \in 0..MaxColLen}
        \cup {<<97, 97, 98>>, <<107, 101, 121, 123, 125>>}

\* the permutations of 0..k-1
KeyOrders(k) == {p \in [1..k -> 0..(k - 1)] : \A i, j \in 1..k : p[i] = p[j] => i = j}

\* t written row by row into Len(p) columns and read column by column, the
\* column j (from 0) being read as the p[j]-th
ColumnarEncode(t, p) ==
    LET n == Len(t)
        k == Len(p)
        col(i) == (i - 1) % k
        rank(i) == Cardinality({j \in 1..n :
                       \/ p[col(j) + 1] < p[col(i) + 1]
                       \/ (col(j) = col(i) /\ j < i)})
    IN  Join([x \in 1..n |-> t[CHOOSE i \in 1..n : rank(i) + 1 = x]])

\* columnar_transposition_decrypt on the encryption of plain under key_order
ColumnarDecrypt ==
    /\ ret.status = "idle"
    /\ \E plain \in ColumnarTexts, k \in 1..MaxCols :
          \E p \in KeyOrders(k) :
              Apply([tool |-> "columnar_transposition_decrypt", plain |-> plain,
                     arg |-> ColumnarEncode(plain, p), key_order |-> p],
                    Returned("columnar_transposition_decrypt",
                             columnar_transposition_decrypt(ColumnarEncode(plain, p), p)))

\* transposition_break on the encryption of plain under key_order
TranspositionBreakEncoded ==
    /\ ret.status = "idle"
    /\ \E plain \in ColumnarTexts, k \in 2..MaxCols, max_key_len \in 2..MaxCols, top_k \in TopKs :
          \E p \in KeyOrders(k) :
              Done([tool |-> "transposition_break", plain |-> plain,
                    arg |-> ColumnarEncode(plain, p), key_order |-> p,
                    max_key_len |-> max_key_len, top_k |-> top_k],
                   transposition_break(St, ColumnarEncode(plain, p), max_key_len, top_k))

NextColumnar ==
    \/ ColumnarDecrypt
    \/ TranspositionBreakEncoded

SpecColumnar == InitPure /\ [][NextColumnar]_vars

RECURSIVE Factorial(_)
Factorial(k) == IF k <= 1 THEN 1 ELSE k * Factorial(k - 1)

\* the number of permutations of the lengths 2..m
RECURSIVE PermutationCount(_)
PermutationCount(m) == IF m < 2 THEN 0 ELSE Factorial(m) + PermutationCount(m - 1)

\* columnar_transposition_decrypt returned the text whose encryption it was
\* given, a rearrangement of the ciphertext
ColumnarDecrypted ==
    call.tool = "columnar_transposition_decrypt" =>
        /\ ret.status = "returned"
        /\ ret.value = call.plain
        /\ Rearranged(ret.value, call.arg)

\* the candidates are rearrangements of the ciphertext under distinct keys,
\* all permutations of the lengths 2..max_key_len when top_k allows, the one
\* of the encryption giving back the plain text
AllPermutationsOnce ==
    /\ hits + misses = PermutationCount(call.max_key_len)
    /\ \A i \in 1..Len(ret.value) : Rearranged(ret.value[i].plaintext, call.arg)
    /\ \A i, j \in 1..Len(ret.value) : ret.value[i].key = ret.value[j].key => i = j
    /\ call.top_k >= PermutationCount(call.max_key_len) =>
          /\ {ret.value[i].key : i \in 1..Len(ret.value)} =
                 UNION {{JoinDash(p) : p \in KeyOrders(k)} : k \in 2..call.max_key_len}
          /\ Len(call.key_order) <= call.max_key_len =>
                \E i \in 1..Len(ret.value) :
                    /\ ret.value[i].key = JoinDash(call.key_order)
                    /\ ret.value[i].plaintext = call.plain

\* C28: for every text t, key length k >= 1 and permutation p of 0..k-1,
\* columnar_transposition_decrypt inverts the encryption that writes t row by
\* row into k columns and reads the columns in the order p gives; its output
\* is a rearrangement of the ciphertext; transposition_break evaluates every
\* permutation of every length 2..max_key_len exactly once
C28_ColumnarInverse ==
    /\ ColumnarDecrypted
    /\ call.tool = "transposition_break" => (ret.status = "returned" /\ AllPermutationsOnce)

\* the same of the calls of transposition_break that return
C28_ReturnedColumnarInverse ==
    /\ ColumnarDecrypted
    /\ (call.tool = "transposition_break" /\ ret.status = "returned") => AllPermutationsOnce

\* a text of uneven columns was recovered under a key order that is not the
\* identity
C28_UnevenColumnsRecovered ==
    /\ call.tool = "columnar_transposition_decrypt"
    /\ Len(call.key_order) = 3
    /\ call.key_order = <<2, 0, 1>>
    /\ Len(call.plain) = 5
    /\ ret.value = call.plain
    /\ call.arg # call.plain

\* transposition_break stopped at a candidate with a marker before the last
\* permutation
C28_StoppedBeforeLastPermutation ==
    /\ call.tool = "transposition_break"
    /\ ret.status = "raised"
    /\ hits + misses < PermutationCount(call.max_key_len)

----------------------------------------------------------------------------
(* xor_repeating_break over ranges of more than five key lengths, and      *)
(* _avg_norm_hamming on its own: one call per behaviour                     *)

MaxKeySize == 7
MaxHamLen == 8

\* "key{}", "etetetet" and "attack at dawn attack at", passed as raw text
RepeatTexts ==
    { <<107, 101, 121, 123, 125>>,
      <<101, 116, 101, 116, 101, 116, 101, 116>>,
      <<97, 116, 116, 97, 99, 107, 32, 97, 116, 32, 100, 97, 119, 110, 32, 97, 116, 116,
        97, 99, 107, 32, 97, 116>> }

\* <<min_key, max_key>>
RepeatRanges == {<<1, 1>>, <<1, MaxKeySize>>, <<2, 3>>, <<2, MaxKeySize>>}

\* the byte strings of "a" and "b" up to MaxHamLen bytes
HammingTexts == Strings({97, 98}, MaxHamLen)

\* xor_repeating_break(text, "raw", min_key, max_key); log is candidates[:5],
\* the key lengths the loop goes through, in its order
RepeatingBreakRanked ==
    /\ ret.status = "idle"
    /\ text \in RepeatTexts
    /\ \E rng \in RepeatRanges :
          LET r == xor_repeating_break(St, text, "raw", rng[1], rng[2])
          IN  /\ call' = Call("xor_repeating_break", text, 0, rng[2], rng[1], "raw")
              /\ ret' = r.ret
              /\ cache' = r.st.cache
              /\ hits' = r.st.hits
              /\ misses' = r.st.misses
              /\ log' = KeySizes(_parse_data(text, "raw").bytes, rng[1], rng[2])
              /\ UNCHANGED <<text, pool>>

\* _avg_norm_hamming(b, key_size)
AvgNormHamming ==
    /\ ret.status = "idle"
    /\ \E b \in HammingTexts, key_size \in 1..2 :
          /\ call' = Call("_avg_norm_hamming", b, 0, key_size, 0, "")
          /\ ret' = Returned("_avg_norm_hamming", _avg_norm_hamming(b, key_size))
          /\ UNCHANGED <<text, cache, hits, misses, log, pool>>

InitRepeat ==
    /\ text \in RepeatTexts
    /\ call = NoCall
    /\ ret = Idle
    /\ cache = <<>>
    /\ hits = 0
    /\ misses = 0
    /\ log = <<>>
    /\ pool = <<>>

NextRepeat ==
    \/ RepeatingBreakRanked
    \/ AvgNormHamming

SpecRepeat == InitRepeat /\ [][NextRepeat]_vars

\* the bytes of the payload of the call
CallBytes == _parse_data(call.arg, call.encoding).bytes

\* the distance of the key length a is smaller than that of b
NearerLength(a, b) ==
    ScoreLt(AscKey(_avg_norm_hamming(CallBytes, b)), AscKey(_avg_norm_hamming(CallBytes, a)))

\* a is ranked before b: the smaller distance, the smaller length on a tie
RankedBefore(a, b) == NearerLength(a, b) \/ (~NearerLength(b, a) /\ a < b)

\* the lengths tried are the min(5, max_key - min_key + 1) best ranked ones
\* of min_key..max_key, tried in the order of the ranking
TriedNearest ==
    /\ Len(log) = Min(5, call.bound - call.min_key + 1)
    /\ \A i \in 1..Len(log) : log[i] \in call.min_key..call.bound
    /\ \A i, j \in 1..Len(log) : i < j => RankedBefore(log[i], log[j])
    /\ \A i \in 1..Len(log) :
          \A c \in call.min_key..call.bound :
              (\A j \in 1..Len(log) : log[j] # c) => RankedBefore(log[i], c)

\* the decoding with the key found for the key length ks, and its score
DecodingOf(ks) ==
    LET WithKey(ck) == DecodeIgnore(XorKey(CallBytes, ck.key))
        WithScore(txt) == [plaintext |-> txt, score |-> english_score(txt)]
    IN  WithScore(WithKey(ColumnKeys([cache |-> <<>>, hits |-> 0, misses |-> 0],
                                CallBytes, ks, 0, <<>>)))

\* the result is the decoding of the earliest tried length whose score no
\* other tried length exceeds
ReturnedBestTried ==
    LET decs == [i \in 1..Len(log) |-> DecodingOf(log[i])]
    IN  \E i \in 1..Len(log) :
           /\ \A j \in 1..Len(log) : ~ScoreLt(decs[i].score, decs[j].score)
           /\ \A j \in 1..(i - 1) : ScoreLt(decs[j].score, decs[i].score)
           /\ ret.value.plaintext = decs[i].plaintext
           /\ ret.value.confidence = decs[i].score

\* C29: xor_repeating_break with min_key <= max_key tries exactly the
\* min(5, max_key - min_key + 1) key lengths of the smallest distance, the
\* smaller length on ties, and returns the decoding with the highest score
\* among those tried, the earliest tried on ties, with confidence >= 0
C29_TriesNearestReturnsBest ==
    (call.tool = "xor_repeating_break" /\ call.min_key <= call.bound)
        => /\ ret.status = "returned"
           /\ TriedNearest
           /\ ReturnedBestTried
           /\ ScoreLe(Score0, ret.value.confidence)

\* C29, the calls that return: the lengths tried and the result are as stated
C29_ReturnedNearestAndBest ==
    (call.tool = "xor_repeating_break" /\ ret.status = "returned")
        => /\ TriedNearest
           /\ ReturnedBestTried
           /\ ScoreLe(Score0, ret.value.confidence)

\* C29, the ranking alone, whether the call returns or raises
C29_NearestLengthsTried ==
    (call.tool = "xor_repeating_break") => TriedNearest

\* C29: a length without four full blocks gets the worst distance
C29_NoBlocksIsWorst ==
    (call.tool = "_avg_norm_hamming")
        => (ret.value = NoBlocks <=> Len(call.arg) < 4 * call.bound)

\* a call over seven lengths returned after five of them, one with a distance
\* greater than that of a length it left out of trying in order of length
C29_CutOffReturned ==
    /\ call.tool = "xor_repeating_break"
    /\ ret.status = "returned"
    /\ call.bound - call.min_key + 1 > 5
    /\ \E i \in 1..(Len(log) - 1) : log[i] > log[i + 1]

\* a call with min_key = 1 raised: the key 0 of length 1 leaves "key{}"
C29_MarkerTextRaised ==
    /\ call.tool = "xor_repeating_break"
    /\ call.min_key = 1
    /\ ret.status = "raised"
    /\ ret.value = "ValidationError"

----------------------------------------------------------------------------
(* caesar_break: the result against the 26 shifts of the ciphertext *)

\* the score of the ciphertext of the call decoded with the shift k
ShiftScore(k) == english_score(ShiftText(call.arg, k))

\* no shift scores more than the shift k, and every smaller shift scores less
FirstBestShift(k) ==
    /\ \A j \in 0..25 : ~ScoreLt(ShiftScore(k), ShiftScore(j))
    /\ \A j \in 0..(k - 1) : ScoreLt(ShiftScore(j), ShiftScore(k))

CaesarReturned == call.tool = "caesar_break" /\ ret.status = "returned"

\* every shift of the ciphertext of the call scores 0
AllShiftsZero == \A k \in 0..25 : ShiftScore(k) = Score0

\* C30 as stated: the plaintext of the result is the ciphertext decoded with
\* the shift of its key, of the length of the ciphertext; its confidence is
\* the greatest score over the shifts 0..25 and its key the smallest shift
\* with that score, also when every shift scores 0
C30_SelfConsistent ==
    CaesarReturned
        => \E k \in 0..25 :
              /\ ret.value.key = Str(k)
              /\ ret.value.plaintext = ShiftText(call.arg, k)
              /\ Len(ret.value.plaintext) = Len(call.arg)
              /\ ret.value.confidence = ShiftScore(k)
              /\ FirstBestShift(k)

\* C30, amended: the confidence of the result is the greatest score over the
\* shifts 0..25 and its key the smallest shift with that score; its plaintext
\* is the ciphertext decoded with that shift, of the length of the
\* ciphertext, unless every shift scores 0, when the plaintext is empty
C30_SelfConsistentUnlessAllZero ==
    CaesarReturned
        => \E k \in 0..25 :
              /\ ret.value.key = Str(k)
              /\ ret.value.confidence = ShiftScore(k)
              /\ FirstBestShift(k)
              /\ IF AllShiftsZero
                 THEN ret.value.plaintext = <<>>
                 ELSE /\ ret.value.plaintext = ShiftText(call.arg, k)
                      /\ Len(ret.value.plaintext) = Len(call.arg)

\* caesar_break returned for a ciphertext that is not empty and all of whose
\* shifts score 0
C30_AllZeroNotEmpty ==
    /\ CaesarReturned
    /\ call.arg # <<>>
    /\ AllShiftsZero

\* caesar_break returned a shift other than 0
C30_ShiftedBest ==
    /\ CaesarReturned
    /\ ret.value.key # <<48>>
    /\ ret.value.plaintext # <<>>

\* caesar_break returned the shift 0 with a score above 0
C30_UnshiftedBest ==
    /\ CaesarReturned
    /\ ret.value.key = <<48>>
    /\ ScoreLt(Score0, ret.value.confidence)

====
